---- MODULE Spec2Model ----
(***************************************************************************)
(* Terralink backend: the incremental sync cache (TabulaService), the sync *)
(* scheduler (SyncScheduler), the order monitor (OrderMonitor) and the     *)
(* notification decision engine (NotificationConfig).                      *)
(*                                                                         *)
(* The process is one Node.js event loop.  An action is one callback of    *)
(* the loop (a timer firing, an HTTP request arriving, an upstream answer  *)
(* arriving) together with every promise continuation it resumes: the      *)
(* code between two awaits runs without interruption, and a function that  *)
(* returns resumes its awaiting caller in the same callback.  Upstream     *)
(* answers (modified lists, details, geometry) are inputs drawn from small *)
(* sets and arrive in any order.                                           *)
(***************************************************************************)
EXTENDS Integers, Sequences, FiniteSets, TLC

\* ------------------------------------------------------------------------
\* Bounds of the model
\* ------------------------------------------------------------------------
\* clock ticks per second (Date.now() counts 1000 per second)
TicksPerSecond == 2
\* longest modified list upstream returns in one poll
MaxMod == 2
\* cache state objects ever allocated (one per lazy initialisation)
MaxObjs == 3
\* ticks the clock may run past one cache expiry
MaxDrift == 1
\* scheduler runs counted
MaxSyncCount == 3
\* interval timers the monitor may hold armed
MaxTimers == 2
\* interval timers the scheduler may have armed at once
MaxIntervals == 2
\* longest geometry feature list
MaxFeatures == 3
\* longest always-notify list
MaxAlways == 3

\* ------------------------------------------------------------------------
\* Program constants and input sets
\* ------------------------------------------------------------------------
cacheExpiry == 5 * 60 * TicksPerSecond
fromDateOverlap == 5 * 60 * TicksPerSecond
firstSyncAge == 90 * 24 * 60 * 60 * TicksPerSecond

\* config.accountId
accountId == "5429"
\* the literal checkForNewOrders passes to getFieldMaps
monitoredAccount == "5429"
Accounts == {accountId, "123"}

StartTime == firstSyncAge + fromDateOverlap + 1
EndTime == StartTime + cacheExpiry + MaxDrift
TickSteps == {1, cacheExpiry}

JobIds == {1, 2}
Versions == {1, 2}

\* an entry of the modified list (GET /accounts/:id/jobs?include_deleted=true)
Jobs == [id : JobIds, modified_date : Versions, deleted : BOOLEAN]

RECURSIVE Ids(_)
Ids(list) == IF list = <<>> THEN {} ELSE {Head(list).id} \cup Ids(Tail(list))

\* modified lists: every job at most once, by ascending id
ModLists ==
  {s \in UNION {[1..n -> Jobs] : n \in 0..MaxMod} :
     \A i, k \in DOMAIN s : i < k => s[i].id < s[k].id}
\* the modified lists of the racing-requests specification: job 1 only
RaceLists == {s \in ModLists : Ids(s) \subseteq {1}}
\* the modified lists of the monitor's specification: nothing, or every job live
\* at version 1
LiveLists == {<<>>, [i \in 1..2 |-> [id |-> i, modified_date |-> 1, deleted |-> FALSE]]}

\* the detail record of job j as upstream holds it at version v
ContractorAt(v) == IF v = 1 THEN "" ELSE "AcmeCo"
DetailAt(j, v) == [id |-> j, modified_date |-> v, contractor |-> ContractorAt(v)]

\* the callers of getFieldMaps: scheduler runs, monitor passes, HTTP requests
SyncCalls == {"sync1", "sync2"}
Passes == {"pass1", "pass2"}
Requests == {"req1", "req2"}
Callers == SyncCalls \cup Passes \cup Requests

NoObj == 0

\* geometry features: the template_type of each ("" when the feature has none)
TemplateTypes == {"outlines", "exclusion", "nogo", ""}
FeatureLists == UNION {[1..n -> [template_type : TemplateTypes]] : n \in 0..MaxFeatures}
Emails == {"a@x.com", "b@x.com"}
Contractors == {"AcmeCo"}
\* what getFieldMapDetails hands the monitor
OrderDetails == [contractor : Contractors \cup {""}, area : {0, 1}]
NoDetails == [contractor |-> "", area |-> 1]

VARIABLES
  \* TabulaService
  clock, objs, fieldMapsCache, refresh,
  \* history of the cache: ids whose detail was ever fetched into an object, ids
  \* fetched since they were last removed, the list last returned, and how the
  \* last refresh ended (forgotten when the next one begins)
  everFetched, fetchedSince, lastReturned, last,
  \* the upstream service's record of job 1: its version, its deleted flag and
  \* the time of its last modification
  upstream,
  \* SyncScheduler, and the interval timers it has armed and not cleared
  intervalId, intervals, isSyncing, lastSyncTime, lastSyncStatus, lastSyncError, syncCount, syncResult,
  \* OrderMonitor and EmailService
  monitoredOrders, isRunning, checkInterval, timers, pass, initialized,
  \* shouldNotify calls per job id since the last reset()
  evalCount,
  \* NotificationConfig, and the last shouldNotify call with its result
  config, decision,
  \* notification-config.json as last written, whether a write to it would
  \* succeed, and whether the last mutation's saveConfig threw
  configFile, writable, saveFailed

cacheVars == <<clock, objs, fieldMapsCache, refresh, everFetched, fetchedSince, lastReturned, last, upstream>>
schedVars == <<intervalId, intervals, isSyncing, lastSyncTime, lastSyncStatus, lastSyncError, syncCount, syncResult>>
monVars == <<monitoredOrders, isRunning, checkInterval, timers, pass, initialized, evalCount, decision>>
cfgVars == <<config, configFile, writable, saveFailed>>
vars == <<cacheVars, schedVars, monVars, cfgVars>>

\* ------------------------------------------------------------------------
\* NotificationConfig
\* ------------------------------------------------------------------------
DefaultConfig ==
  [enabled |-> FALSE,
   alwaysNotify |-> <<>>,
   contractorEmails |-> [c \in {} |-> ""],
   emailConfig |-> [smtpHost |-> "", smtpPassword |-> ""],
   notificationRules |-> [outlines |-> TRUE, exclusion |-> TRUE, nogo |-> TRUE, zeroArea |-> FALSE]]

Includes(seq, x) == \E i \in DOMAIN seq : seq[i] = x

\* geometryFeatures.map(f => f.properties?.template_type).filter(Boolean)
templateTypes(geometryFeatures) ==
  SelectSeq([i \in DOMAIN geometryFeatures |-> geometryFeatures[i].template_type],
            LAMBDA t : t # "")

\* shouldNotify not reading the global enabled flag
shouldNotifyIgnoresEnabled(cfg, order, geometryFeatures) ==
  LET types == templateTypes(geometryFeatures)
      rules == cfg.notificationRules
  IN IF rules.outlines /\ Includes(types, "outlines")
       THEN [notify |-> TRUE, reason |-> "reference_field", type |-> "outlines"]
     ELSE IF rules.exclusion /\ Includes(types, "exclusion")
       THEN [notify |-> TRUE, reason |-> "exclusion_zone", type |-> "exclusion"]
     ELSE IF rules.nogo /\ Includes(types, "nogo")
       THEN [notify |-> TRUE, reason |-> "nogo_zone", type |-> "nogo"]
     ELSE IF rules.zeroArea /\ order.area = 0
       THEN [notify |-> TRUE, reason |-> "zero_area", type |-> "zero_area"]
     ELSE [notify |-> FALSE, reason |-> "No triggers matched", type |-> ""]

\* shouldNotify with the exclusion check moved before the outlines check
shouldNotifyExclusionFirst(cfg, order, geometryFeatures) ==
  LET types == templateTypes(geometryFeatures)
      rules == cfg.notificationRules
  IN IF ~cfg.enabled
       THEN [notify |-> FALSE, reason |-> "Notifications disabled", type |-> ""]
     ELSE IF rules.exclusion /\ Includes(types, "exclusion")
       THEN [notify |-> TRUE, reason |-> "exclusion_zone", type |-> "exclusion"]
     ELSE IF rules.outlines /\ Includes(types, "outlines")
       THEN [notify |-> TRUE, reason |-> "reference_field", type |-> "outlines"]
     ELSE IF rules.nogo /\ Includes(types, "nogo")
       THEN [notify |-> TRUE, reason |-> "nogo_zone", type |-> "nogo"]
     ELSE IF rules.zeroArea /\ order.area = 0
       THEN [notify |-> TRUE, reason |-> "zero_area", type |-> "zero_area"]
     ELSE [notify |-> FALSE, reason |-> "No triggers matched", type |-> ""]

\* shouldNotify with the zero-area check not reading its rule toggle
shouldNotifyZeroUntoggled(cfg, order, geometryFeatures) ==
  LET types == templateTypes(geometryFeatures)
      rules == cfg.notificationRules
  IN IF ~cfg.enabled
       THEN [notify |-> FALSE, reason |-> "Notifications disabled", type |-> ""]
     ELSE IF rules.outlines /\ Includes(types, "outlines")
       THEN [notify |-> TRUE, reason |-> "reference_field", type |-> "outlines"]
     ELSE IF rules.exclusion /\ Includes(types, "exclusion")
       THEN [notify |-> TRUE, reason |-> "exclusion_zone", type |-> "exclusion"]
     ELSE IF rules.nogo /\ Includes(types, "nogo")
       THEN [notify |-> TRUE, reason |-> "nogo_zone", type |-> "nogo"]
     ELSE IF order.area = 0
       THEN [notify |-> TRUE, reason |-> "zero_area", type |-> "zero_area"]
     ELSE [notify |-> FALSE, reason |-> "No triggers matched", type |-> ""]

shouldNotify(cfg, order, geometryFeatures) ==
  LET types == templateTypes(geometryFeatures)
      rules == cfg.notificationRules
  IN IF ~cfg.enabled
       THEN [notify |-> FALSE, reason |-> "Notifications disabled", type |-> ""]
     ELSE IF rules.outlines /\ Includes(types, "outlines")
       THEN [notify |-> TRUE, reason |-> "reference_field", type |-> "outlines"]
     ELSE IF rules.exclusion /\ Includes(types, "exclusion")
       THEN [notify |-> TRUE, reason |-> "exclusion_zone", type |-> "exclusion"]
     ELSE IF rules.nogo /\ Includes(types, "nogo")
       THEN [notify |-> TRUE, reason |-> "nogo_zone", type |-> "nogo"]
     ELSE IF rules.zeroArea /\ order.area = 0
       THEN [notify |-> TRUE, reason |-> "zero_area", type |-> "zero_area"]
     ELSE [notify |-> FALSE, reason |-> "No triggers matched", type |-> ""]

\* Dedupe keeping every occurrence
DedupeNone(seq, acc) == seq

\* [...new Set(recipients)]: first occurrences, in order
RECURSIVE Dedupe(_, _)
Dedupe(seq, acc) ==
  IF seq = <<>> THEN acc
  ELSE Dedupe(Tail(seq), IF Includes(acc, Head(seq)) THEN acc ELSE Append(acc, Head(seq)))

getRecipients(cfg, contractorName) ==
  LET mapped == /\ contractorName # ""
                /\ contractorName \in DOMAIN cfg.contractorEmails
                /\ cfg.contractorEmails[contractorName] # ""
      recipients == IF mapped THEN Append(cfg.alwaysNotify, cfg.contractorEmails[contractorName])
                    ELSE cfg.alwaysNotify
  IN Dedupe(recipients, <<>>)

\* the last evaluation of an order: what shouldNotify answered, the recipients
\* resolved for it, and whether emailService.sendOrderNotification was called
NoCall == [called |-> FALSE, order |-> NoDetails, features |-> <<>>,
           result |-> [notify |-> FALSE, reason |-> "", type |-> ""],
           recipients |-> <<>>, sent |-> FALSE]

\* GET /check/:orderId: the decision and the recipients, nothing sent
Call(order, features) ==
  [called |-> TRUE, order |-> order, features |-> features,
   result |-> shouldNotify(config, order, features),
   recipients |-> getRecipients(config, order.contractor),
   sent |-> FALSE]

\* checkForNewOrders lines 95-121.  On a notify decision the recipients are
\* resolved; when there are some, line 106 calls
\* notificationConfig.getCustomMessage, which NotificationConfig does not
\* define: the TypeError is thrown inside the try of line 104, before
\* sendOrderNotification (line 108) is called, and the catch of line 115 logs it.
Evaluation(order, features) ==
  LET res == shouldNotify(config, order, features)
  IN [called |-> TRUE, order |-> order, features |-> features,
      result |-> res,
      recipients |-> IF res.notify THEN getRecipients(config, order.contractor) ELSE <<>>,
      sent |-> FALSE]

\* ------------------------------------------------------------------------
\* OrderMonitor: what a check pass does once an awaited call has settled
\* ------------------------------------------------------------------------
IdlePass == [pc |-> "idle", owner |-> "none", order |-> 0, rest |-> <<>>, orderDetails |-> NoDetails]

\* the head of the loop (lines 69-75): orders already in the set are skipped
RECURSIVE SkipMonitored(_, _)
SkipMonitored(rest, seen) ==
  IF rest = <<>> THEN <<>>
  ELSE IF Head(rest) \in seen THEN SkipMonitored(Tail(rest), seen) ELSE rest

\* checkForNewOrders returned: a pass awaited by start() lets start() arm the
\* interval (lines 34-40); a pass run by the interval just ends
PassEnd(p, owner) ==
  /\ pass' = [pass EXCEPT ![p] = IdlePass]
  /\ IF owner = "start"
       THEN checkInterval' = TRUE /\ timers' = timers + 1
       ELSE UNCHANGED <<checkInterval, timers>>
  /\ UNCHANGED monitoredOrders

\* the loop runs to its next await: the first order not in the set is added
\* and its detail requested (lines 69-81), or the list is exhausted
PassLoop(p, owner, rest) ==
  LET r == SkipMonitored(rest, monitoredOrders)
  IN IF r = <<>> THEN PassEnd(p, owner)
     ELSE /\ monitoredOrders' = monitoredOrders \cup {Head(r)}
          /\ pass' = [pass EXCEPT ![p] =
                [pc |-> "details", owner |-> owner, order |-> Head(r), rest |-> Tail(r),
                 orderDetails |-> NoDetails]]
          /\ UNCHANGED <<checkInterval, timers>>

\* getFieldMaps returned to the pass (line 67)
PassReturned(p, res) ==
  /\ PassLoop(p, pass[p].owner, [i \in DOMAIN res |-> res[i].id])
  /\ UNCHANGED <<isRunning, initialized, evalCount, decision>>

\* getFieldMaps threw: the outer catch ends the pass (lines 123-125)
PassThrew(p) ==
  /\ PassEnd(p, pass[p].owner)
  /\ UNCHANGED <<isRunning, initialized, evalCount, decision>>

\* ------------------------------------------------------------------------
\* SyncScheduler: what sync() does once getFieldMaps has settled
\* ------------------------------------------------------------------------
\* lines 226-240 and the finally block
SyncReturned(s, res) ==
  /\ lastSyncTime' = clock
  /\ lastSyncStatus' = "success"
  /\ lastSyncError' = "null"
  /\ syncCount' = syncCount + 1
  /\ isSyncing' = FALSE
  /\ syncResult' = [syncResult EXCEPT ![s] = "success"]
  /\ UNCHANGED <<intervalId, intervals>>

\* SyncThrew without the finally block of lines 256-258
SyncThrewKeepsSyncing(s) ==
  /\ lastSyncTime' = clock
  /\ lastSyncStatus' = "failed"
  /\ lastSyncError' = "error.message"
  /\ syncResult' = [syncResult EXCEPT ![s] = "failed"]
  /\ UNCHANGED <<intervalId, intervals, syncCount, isSyncing>>

\* lines 241-258
SyncThrew(s) ==
  /\ lastSyncTime' = clock
  /\ lastSyncStatus' = "failed"
  /\ lastSyncError' = "error.message"
  /\ isSyncing' = FALSE
  /\ syncResult' = [syncResult EXCEPT ![s] = "failed"]
  /\ UNCHANGED <<intervalId, intervals, syncCount>>

\* ------------------------------------------------------------------------
\* TabulaService
\* ------------------------------------------------------------------------
IdleRefresh ==
  [pc |-> "idle", account |-> accountId, now |-> 0, cacheValid |-> FALSE,
   cache |-> NoObj, fromDate |-> 0, fromDateEpoch |-> 0, modifiedJobs |-> <<>>,
   jobsNeedingDetails |-> {}, pending |-> {}]

NoLast == [kind |-> "none", caller |-> "", cache |-> NoObj, deleted |-> {}, now |-> 0]

\* lines 126-131
NewCache(now) ==
  [timestamp |-> now, lastSyncDate |-> now - firstSyncAge,
   fullJobList |-> <<>>, jobDetailsCache |-> [j \in {} |-> 0]]

\* transformJobsToFieldMaps: one summary per job, detail fields overlaid
TransformJob(job, detailsCache) ==
  [id |-> job.id,
   modifiedDate |-> job.modified_date,
   deleted |-> job.deleted,
   contractor |-> IF job.id \in DOMAIN detailsCache
                    THEN detailsCache[job.id].contractor ELSE ""]

transformJobsToFieldMaps(jobs, detailsCache) ==
  [i \in DOMAIN jobs |-> TransformJob(jobs[i], detailsCache)]

\* NeedsUpdate asking for every job's detail
NeedsUpdateAlways(job, detailsCache) == TRUE

\* lines 159-161
NeedsUpdate(job, detailsCache) ==
  \/ job.id \notin DOMAIN detailsCache
  \/ detailsCache[job.id].modified_date # job.modified_date

\* the loop of lines 157-166, as the set of ids it collects
JobsNeedingDetails(modifiedJobs, detailsCache) ==
  {modifiedJobs[i].id : i \in {k \in DOMAIN modifiedJobs : NeedsUpdate(modifiedJobs[k], detailsCache)}}

\* MapDelete keeping the entry as a tombstone with its deleted flag set
MapDeleteMarks(list, j) ==
  [i \in DOMAIN list |-> IF list[i].id = j THEN [list[i] EXCEPT !.deleted = TRUE] ELSE list[i]]

\* jobMap.delete / jobMap.set on an insertion-ordered Map
MapDelete(list, j) == SelectSeq(list, LAMBDA e : e.id # j)
\* MapSet guarded by a version check: an entry already present with a later
\* modified_date is kept
MapSetKeepsNewer(list, job) ==
  IF job.id \in Ids(list)
    THEN [i \in DOMAIN list |->
            IF list[i].id = job.id /\ list[i].modified_date <= job.modified_date
              THEN job ELSE list[i]]
    ELSE Append(list, job)

\* MapSet as if the list were a plain array pushed to: an id already present
\* keeps its old entry beside the new one
MapSetAppends(list, job) == Append(list, job)

MapSet(list, job) ==
  IF job.id \in Ids(list)
    THEN [i \in DOMAIN list |-> IF list[i].id = job.id THEN job ELSE list[i]]
    ELSE Append(list, job)

\* MergeList not looking at the deleted flag
RECURSIVE MergeListKeepsDeleted(_, _)
MergeListKeepsDeleted(list, mods) ==
  IF mods = <<>> THEN list
  ELSE MergeListKeepsDeleted(MapSet(list, Head(mods)), Tail(mods))

\* MergeList only removing: live jobs of the modified list are not put in
RECURSIVE MergeListRemovesOnly(_, _)
MergeListRemovesOnly(list, mods) ==
  IF mods = <<>> THEN list
  ELSE LET m == Head(mods)
       IN MergeListRemovesOnly(IF m.deleted THEN MapDelete(list, m.id) ELSE list, Tail(mods))

\* the loop of lines 190-199 on the job list
RECURSIVE MergeList(_, _)
MergeList(list, mods) ==
  IF mods = <<>> THEN list
  ELSE LET m == Head(mods)
       IN MergeList(IF m.deleted THEN MapDelete(list, m.id) ELSE MapSet(list, m), Tail(mods))

DeletedIds(mods) == {mods[i].id : i \in {k \in DOMAIN mods : mods[k].deleted}}
LiveIds(mods) == {mods[i].id : i \in {k \in DOMAIN mods : ~mods[k].deleted}}

Restrict(f, S) == [x \in S |-> f[x]]
\* MergeDetails leaving the details of deleted jobs in place
MergeDetailsKeeps(detailsCache, mods) == detailsCache

\* the loop of lines 190-199 on the detail cache
MergeDetails(detailsCache, mods) == Restrict(detailsCache, DOMAIN detailsCache \ DeletedIds(mods))

\* MergedCache never moving lastSyncDate backwards
MergedCacheMonotone(cache, mods, now) ==
  [timestamp |-> now,
   lastSyncDate |-> IF cache.lastSyncDate > now THEN cache.lastSyncDate ELSE now,
   fullJobList |-> MergeList(cache.fullJobList, mods),
   jobDetailsCache |-> MergeDetails(cache.jobDetailsCache, mods)]

\* MergedCache storing the poll's from-date as the last sync date
MergedCacheFromDate(cache, mods, now) ==
  [timestamp |-> now, lastSyncDate |-> cache.lastSyncDate - fromDateOverlap,
   fullJobList |-> MergeList(cache.fullJobList, mods),
   jobDetailsCache |-> MergeDetails(cache.jobDetailsCache, mods)]

\* MergedCache without the stamp of line 202: lastSyncDate stays as seeded
MergedCacheKeepsSeed(cache, mods, now) ==
  [timestamp |-> now, lastSyncDate |-> cache.lastSyncDate,
   fullJobList |-> MergeList(cache.fullJobList, mods),
   jobDetailsCache |-> MergeDetails(cache.jobDetailsCache, mods)]

\* lines 187-204: merge and stamp
MergedCache(cache, mods, now) ==
  [timestamp |-> now, lastSyncDate |-> now,
   fullJobList |-> MergeList(cache.fullJobList, mods),
   jobDetailsCache |-> MergeDetails(cache.jobDetailsCache, mods)]

\* line 175
PutDetail(detailsCache, j, detail) ==
  [x \in DOMAIN detailsCache \cup {j} |-> IF x = j THEN detail ELSE detailsCache[x]]

\* ShortCircuit never taken
ShortCircuitNever(mods, cacheValid, cache) == FALSE

\* line 151
ShortCircuit(mods, cacheValid, cache) ==
  mods = <<>> /\ cacheValid /\ Len(cache.fullJobList) > 0

\* line 121
CacheValid(cached, now) ==
  cached # NoObj /\ (now - objs[cached].timestamp) < cacheExpiry

\* line 138
\* FromDate without the overlap
FromDateNoOverlap(cache) == cache.lastSyncDate

FromDate(cache) == cache.lastSyncDate - fromDateOverlap
\* FromDateEpoch rounding up instead of down
FromDateEpochCeil(fromDate) == (fromDate + TicksPerSecond - 1) \div TicksPerSecond

\* line 139
FromDateEpoch(fromDate) == fromDate \div TicksPerSecond

\* the modified-list request a refresh in flight has issued (lines 143-145)
ListRequest(r) ==
  [account |-> r.account, include_deleted |-> TRUE, from_date |-> r.fromDateEpoch]

\* the awaiting caller resumes with the returned list
Returned(c, res) ==
  CASE c \in SyncCalls -> SyncReturned(c, res) /\ UNCHANGED monVars
    [] c \in Passes -> PassReturned(c, res) /\ UNCHANGED schedVars
    [] OTHER -> UNCHANGED <<schedVars, monVars>>

\* the awaiting caller resumes with the error handleError made
Threw(c) ==
  CASE c \in SyncCalls -> SyncThrew(c) /\ UNCHANGED monVars
    [] c \in Passes -> PassThrew(c) /\ UNCHANGED schedVars
    [] OTHER -> UNCHANGED <<schedVars, monVars>>

\* BeginRefresh answering from a valid, non-empty cache without polling
BeginRefreshServesCache(c, a) ==
  /\ refresh[c].pc = "idle"
  /\ LET cached == fieldMapsCache[a]
         fresh == cached = NoObj
     IN /\ fresh => Len(objs) < MaxObjs
        /\ LET o == IF fresh THEN Len(objs) + 1 ELSE cached
               cache == IF fresh THEN NewCache(clock) ELSE objs[cached]
           IN IF CacheValid(cached, clock) /\ Len(cache.fullJobList) > 0
                THEN /\ last' = [kind |-> "short", caller |-> c, cache |-> o, deleted |-> {},
                                 now |-> clock]
                     /\ lastReturned' = [lastReturned EXCEPT ![o] =
                           transformJobsToFieldMaps(cache.fullJobList, cache.jobDetailsCache)]
                     /\ UNCHANGED <<objs, everFetched, fetchedSince, fieldMapsCache, refresh>>
                ELSE /\ objs' = IF fresh THEN Append(objs, cache) ELSE objs
                     /\ everFetched' = IF fresh THEN Append(everFetched, {}) ELSE everFetched
                     /\ fetchedSince' = IF fresh THEN Append(fetchedSince, {}) ELSE fetchedSince
                     /\ lastReturned' = IF fresh THEN Append(lastReturned, <<>>) ELSE lastReturned
                     /\ fieldMapsCache' = [fieldMapsCache EXCEPT ![a] = o]
                     /\ refresh' = [refresh EXCEPT ![c] =
                           [IdleRefresh EXCEPT
                              !.pc = "list", !.account = a, !.now = clock,
                              !.cacheValid = CacheValid(cached, clock),
                              !.cache = o,
                              !.fromDate = FromDate(cache),
                              !.fromDateEpoch = FromDateEpoch(FromDate(cache))]]
                     /\ last' = NoLast
  /\ UNCHANGED <<upstream, clock>>

\* getFieldMaps up to its first await (lines 117-145)
BeginRefresh(c, a) ==
  /\ refresh[c].pc = "idle"
  /\ LET cached == fieldMapsCache[a]
         fresh == cached = NoObj
     IN /\ fresh => Len(objs) < MaxObjs
        /\ LET o == IF fresh THEN Len(objs) + 1 ELSE cached
               cache == IF fresh THEN NewCache(clock) ELSE objs[cached]
           IN /\ objs' = IF fresh THEN Append(objs, cache) ELSE objs
              /\ everFetched' = IF fresh THEN Append(everFetched, {}) ELSE everFetched
              /\ fetchedSince' = IF fresh THEN Append(fetchedSince, {}) ELSE fetchedSince
              /\ lastReturned' = IF fresh THEN Append(lastReturned, <<>>) ELSE lastReturned
              /\ fieldMapsCache' = [fieldMapsCache EXCEPT ![a] = o]
              /\ refresh' = [refresh EXCEPT ![c] =
                    [IdleRefresh EXCEPT
                       !.pc = "list", !.account = a, !.now = clock,
                       !.cacheValid = CacheValid(cached, clock),
                       !.cache = o,
                       !.fromDate = FromDate(cache),
                       !.fromDateEpoch = FromDateEpoch(FromDate(cache))]]
  /\ last' = NoLast
  /\ UNCHANGED <<upstream, clock>>

\* lines 187-209 for caller c holding modified list mods, on detail cache details
MergeAndReturn(c, mods, need, details) ==
  LET r == refresh[c]
      o == r.cache
      merged == MergedCache([objs[o] EXCEPT !.jobDetailsCache = details], mods, r.now)
      res == transformJobsToFieldMaps(merged.fullJobList, merged.jobDetailsCache)
  IN /\ objs' = [objs EXCEPT ![o] = merged]
     /\ lastReturned' = [lastReturned EXCEPT ![o] = res]
     /\ refresh' = [refresh EXCEPT ![c] = IdleRefresh]
     /\ last' = [kind |-> "merged", caller |-> c, cache |-> o, deleted |-> DeletedIds(mods),
                 now |-> r.now]
     /\ Returned(c, res)

\* ListFail re-seeding the account's state as if it were new
ListFailReseeds(c) ==
  /\ refresh[c].pc = "list"
  /\ refresh' = [refresh EXCEPT ![c] = IdleRefresh]
  /\ last' = [NoLast EXCEPT !.kind = "threw", !.caller = c, !.cache = refresh[c].cache,
                           !.now = refresh[c].now]
  /\ Threw(c)
  /\ objs' = [objs EXCEPT ![refresh[c].cache] = NewCache(refresh[c].now)]
  /\ UNCHANGED <<upstream, clock, fieldMapsCache, everFetched, fetchedSince, lastReturned>>
  /\ UNCHANGED cfgVars

\* ListFail discarding the account's cache entry
ListFailDropsEntry(c) ==
  /\ refresh[c].pc = "list"
  /\ refresh' = [refresh EXCEPT ![c] = IdleRefresh]
  /\ last' = [NoLast EXCEPT !.kind = "threw", !.caller = c, !.cache = refresh[c].cache,
                           !.now = refresh[c].now]
  /\ Threw(c)
  /\ fieldMapsCache' = [fieldMapsCache EXCEPT ![refresh[c].account] = NoObj]
  /\ UNCHANGED <<upstream, clock, objs, everFetched, fetchedSince, lastReturned>>
  /\ UNCHANGED cfgVars

\* the catch block: the modified-list call failed (lines 143, 210-212)
ListFail(c) ==
  /\ refresh[c].pc = "list"
  /\ refresh' = [refresh EXCEPT ![c] = IdleRefresh]
  /\ last' = [NoLast EXCEPT !.kind = "threw", !.caller = c, !.cache = refresh[c].cache,
                           !.now = refresh[c].now]
  /\ Threw(c)
  /\ UNCHANGED <<upstream, clock, objs, fieldMapsCache, everFetched, fetchedSince, lastReturned>>
  /\ UNCHANGED cfgVars

\* the modified list arrived (lines 147-185; 187-209 too when nothing is to fetch)
ListOk(c, mods) ==
  /\ refresh[c].pc = "list"
  /\ LET r == refresh[c]
         o == r.cache
         cache == objs[o]
         need == JobsNeedingDetails(mods, cache.jobDetailsCache)
     IN IF ShortCircuit(mods, r.cacheValid, cache)
        THEN LET res == transformJobsToFieldMaps(cache.fullJobList, cache.jobDetailsCache)
             IN /\ refresh' = [refresh EXCEPT ![c] = IdleRefresh]
                /\ lastReturned' = [lastReturned EXCEPT ![o] = res]
                /\ last' = [kind |-> "short", caller |-> c, cache |-> o, deleted |-> {},
                            now |-> r.now]
                /\ Returned(c, res)
                /\ UNCHANGED <<objs, everFetched, fetchedSince>>
        ELSE IF need # {}
        THEN /\ refresh' = [refresh EXCEPT ![c].pc = "details", ![c].cacheValid = FALSE,
                                           ![c].modifiedJobs = mods,
                                           ![c].jobsNeedingDetails = need, ![c].pending = need]
             /\ UNCHANGED <<objs, everFetched, fetchedSince, lastReturned, last>>
             /\ UNCHANGED <<schedVars, monVars>>
        ELSE /\ MergeAndReturn(c, mods, need, cache.jobDetailsCache)
             /\ fetchedSince' = [fetchedSince EXCEPT ![o] = @ \ DeletedIds(mods)]
             /\ UNCHANGED everFetched
  /\ UNCHANGED <<upstream, clock, fieldMapsCache>>
  /\ UNCHANGED cfgVars

\* one detail fetch resolved (lines 174-177); the last one to settle lets
\* Promise.all resolve and the merge run (lines 184-209)
DetailOk(c, j, v) ==
  /\ refresh[c].pc = "details"
  /\ j \in refresh[c].pending
  /\ LET r == refresh[c]
         o == r.cache
         details == PutDetail(objs[o].jobDetailsCache, j, DetailAt(j, v))
     IN /\ everFetched' = [everFetched EXCEPT ![o] = @ \cup {j}]
        /\ IF r.pending = {j}
           THEN /\ MergeAndReturn(c, r.modifiedJobs, r.jobsNeedingDetails, details)
                /\ fetchedSince' = [fetchedSince EXCEPT ![o] = (@ \cup {j}) \ DeletedIds(r.modifiedJobs)]
           ELSE /\ objs' = [objs EXCEPT ![o].jobDetailsCache = details]
                /\ fetchedSince' = [fetchedSince EXCEPT ![o] = @ \cup {j}]
                /\ refresh' = [refresh EXCEPT ![c].pending = @ \ {j}]
                /\ UNCHANGED <<lastReturned, last, schedVars, monVars>>
  /\ UNCHANGED <<upstream, clock, fieldMapsCache>>
  /\ UNCHANGED cfgVars

\* DetailFail letting the rejection escape, as Promise.all would without the
\* .catch of lines 178-181
DetailFailThrows(c, j) ==
  /\ refresh[c].pc = "details"
  /\ j \in refresh[c].pending
  /\ refresh' = [refresh EXCEPT ![c] = IdleRefresh]
  /\ last' = [NoLast EXCEPT !.kind = "threw", !.caller = c, !.cache = refresh[c].cache,
                           !.now = refresh[c].now]
  /\ Threw(c)
  /\ UNCHANGED <<upstream, clock, objs, fieldMapsCache, everFetched, fetchedSince, lastReturned>>
  /\ UNCHANGED cfgVars

\* one detail fetch rejected (lines 178-181); the last one to settle lets
\* Promise.all resolve and the merge run (lines 184-209)
DetailFail(c, j) ==
  /\ refresh[c].pc = "details"
  /\ j \in refresh[c].pending
  /\ LET r == refresh[c]
         o == r.cache
     IN IF r.pending = {j}
        THEN /\ MergeAndReturn(c, r.modifiedJobs, r.jobsNeedingDetails, objs[o].jobDetailsCache)
             /\ fetchedSince' = [fetchedSince EXCEPT ![o] = @ \ DeletedIds(r.modifiedJobs)]
        ELSE /\ refresh' = [refresh EXCEPT ![c].pending = @ \ {j}]
             /\ UNCHANGED <<objs, fetchedSince, lastReturned, last, schedVars, monVars>>
  /\ UNCHANGED <<upstream, clock, fieldMapsCache, everFetched>>
  /\ UNCHANGED cfgVars

\* getCacheStats (lines 401-416): one record per account with a cache entry
getCacheStats ==
  [a \in {x \in Accounts : fieldMapsCache[x] # NoObj} |->
     LET cache == objs[fieldMapsCache[a]]
     IN [totalJobs |-> Len(cache.fullJobList),
         cachedDetailsCount |-> Cardinality(DOMAIN cache.jobDetailsCache),
         cacheAgeSeconds |-> (clock - cache.timestamp) \div TicksPerSecond,
         lastSyncDate |-> cache.lastSyncDate]]

\* GET /api/field-maps/customer/:customerId and its like call getFieldMaps
Request(c, a) ==
  /\ BeginRefresh(c, a)
  /\ UNCHANGED <<schedVars, monVars, cfgVars>>

\* clearCache dropping every account whatever its argument
clearCacheEverything(a) ==
  /\ fieldMapsCache' = [x \in Accounts |-> NoObj]
  /\ UNCHANGED <<upstream, clock, objs, refresh, everFetched, fetchedSince, lastReturned, last>>
  /\ UNCHANGED <<schedVars, monVars, cfgVars>>

\* clearCache emptying the cleared accounts' state objects in place instead of
\* dropping the entries
clearCacheInPlace(a) ==
  /\ objs' = [o \in DOMAIN objs |->
                IF \E x \in Accounts : (a = "" \/ x = a) /\ fieldMapsCache[x] = o
                  THEN NewCache(clock) ELSE objs[o]]
  /\ UNCHANGED <<upstream, clock, fieldMapsCache, refresh, everFetched, fetchedSince, lastReturned, last>>
  /\ UNCHANGED <<schedVars, monVars, cfgVars>>

\* clearCache(customerId), and clearCache() when a = ""
clearCache(a) ==
  /\ fieldMapsCache' = IF a = "" THEN [x \in Accounts |-> NoObj]
                       ELSE [fieldMapsCache EXCEPT ![a] = NoObj]
  /\ UNCHANGED <<upstream, clock, objs, refresh, everFetched, fetchedSince, lastReturned, last>>
  /\ UNCHANGED <<schedVars, monVars, cfgVars>>

\* Date.now() moves on: by single ticks, at most MaxDrift of them in a row, and
\* by a whole cache expiry
Tick(d) ==
  /\ clock + d <= EndTime
  /\ d < cacheExpiry => ((clock - StartTime) % cacheExpiry) + d <= MaxDrift
  /\ clock' = clock + d
  /\ UNCHANGED <<upstream, objs, fieldMapsCache, refresh, everFetched, fetchedSince, lastReturned, last>>
  /\ UNCHANGED <<schedVars, monVars, cfgVars>>

\* ------------------------------------------------------------------------
\* SyncScheduler
\* ------------------------------------------------------------------------
\* sync() without the isSyncing guard of lines 207-214
syncUnguarded(s) ==
  /\ syncResult[s] # "running"
  /\ syncCount < MaxSyncCount
  /\ isSyncing' = TRUE
  /\ syncResult' = [syncResult EXCEPT ![s] = "running"]
  /\ BeginRefresh(s, accountId)
  /\ UNCHANGED <<lastSyncTime, lastSyncStatus, lastSyncError, syncCount>>

\* sync() up to its await (lines 206-224), run by call s
sync(s) ==
  /\ syncResult[s] # "running"
  /\ syncCount < MaxSyncCount
  /\ IF isSyncing
       THEN /\ syncResult' = [syncResult EXCEPT ![s] = "skipped"]
            /\ UNCHANGED <<isSyncing, cacheVars>>
       ELSE /\ isSyncing' = TRUE
            /\ syncResult' = [syncResult EXCEPT ![s] = "running"]
            /\ BeginRefresh(s, accountId)
  /\ UNCHANGED <<lastSyncTime, lastSyncStatus, lastSyncError, syncCount>>

\* start() without the intervalId check of lines 169-172
SchedulerStartUnguarded(s) ==
  /\ intervals < MaxIntervals
  /\ sync(s)
  /\ intervalId' = TRUE
  /\ intervals' = intervals + 1
  /\ UNCHANGED <<monVars, cfgVars>>

\* start() (lines 168-189): nothing when already scheduled, else the initial
\* sync, then the interval
SchedulerStart(s) ==
  IF intervalId
    THEN UNCHANGED vars
    ELSE /\ intervals < MaxIntervals
         /\ sync(s)
         /\ intervalId' = TRUE
         /\ intervals' = intervals + 1
         /\ UNCHANGED <<monVars, cfgVars>>

\* an armed interval fires (lines 182-186)
SchedulerTimer(s) ==
  /\ intervals > 0
  /\ sync(s)
  /\ UNCHANGED <<intervalId, intervals, monVars, cfgVars>>

\* POST /api/monitor/sync
ManualSync(s) ==
  /\ sync(s)
  /\ UNCHANGED <<intervalId, intervals, monVars, cfgVars>>

\* stop() (lines 194-200): clears the interval intervalId names, if any
SchedulerStop ==
  /\ intervalId' = FALSE
  /\ intervals' = IF intervalId THEN intervals - 1 ELSE intervals
  /\ UNCHANGED <<isSyncing, lastSyncTime, lastSyncStatus, lastSyncError, syncCount, syncResult>>
  /\ UNCHANGED <<cacheVars, monVars, cfgVars>>

\* ------------------------------------------------------------------------
\* OrderMonitor
\* ------------------------------------------------------------------------
\* PassBegin without the enabled check of lines 62-64
PassBeginIgnoresEnabled(p, owner) ==
  /\ BeginRefresh(p, monitoredAccount)
  /\ pass' = [pass EXCEPT ![p] = [IdlePass EXCEPT !.pc = "fieldMaps", !.owner = owner]]
  /\ UNCHANGED <<monitoredOrders, checkInterval, timers>>

\* checkForNewOrders up to its first await (lines 58-67)
PassBegin(p, owner) ==
  IF ~config.enabled
    THEN PassEnd(p, owner) /\ UNCHANGED cacheVars
    ELSE /\ BeginRefresh(p, monitoredAccount)
         /\ pass' = [pass EXCEPT ![p] = [IdlePass EXCEPT !.pc = "fieldMaps", !.owner = owner]]
         /\ UNCHANGED <<monitoredOrders, checkInterval, timers>>

\* start() (lines 16-32), its check pass run in slot p
MonitorStart(p) ==
  /\ ~isRunning
  /\ pass[p].pc = "idle"
  /\ timers < MaxTimers
  /\ isRunning' = TRUE
  /\ IF config.enabled /\ config.emailConfig.smtpHost # ""
       THEN /\ pass' = [pass EXCEPT ![p] = [IdlePass EXCEPT !.pc = "init", !.owner = "start"]]
            /\ UNCHANGED <<monitoredOrders, checkInterval, timers, cacheVars>>
       ELSE PassBegin(p, "start")
  /\ UNCHANGED <<initialized, evalCount, decision, schedVars, cfgVars>>

\* emailService.initialize settled (it never rejects); start() goes on to its
\* check pass (lines 28-32)
InitializeDone(p, ok) ==
  /\ pass[p].pc = "init"
  /\ initialized' = ok
  /\ PassBegin(p, "start")
  /\ UNCHANGED <<isRunning, evalCount, decision, schedVars, cfgVars>>

\* the interval fires (lines 35-37), its check pass run in slot p
MonitorTimer(p) ==
  /\ timers > 0
  /\ pass[p].pc = "idle"
  /\ PassBegin(p, "timer")
  /\ UNCHANGED <<isRunning, initialized, evalCount, decision, schedVars, cfgVars>>

\* stop() also forgetting the orders seen
MonitorStopClears ==
  /\ checkInterval' = FALSE
  /\ timers' = IF checkInterval THEN timers - 1 ELSE timers
  /\ isRunning' = FALSE
  /\ monitoredOrders' = {}
  /\ UNCHANGED <<pass, initialized, evalCount, decision>>
  /\ UNCHANGED <<cacheVars, schedVars, cfgVars>>

\* stop() (lines 46-53)
MonitorStop ==
  /\ checkInterval' = FALSE
  /\ timers' = IF checkInterval THEN timers - 1 ELSE timers
  /\ isRunning' = FALSE
  /\ UNCHANGED <<monitoredOrders, pass, initialized, evalCount, decision>>
  /\ UNCHANGED <<cacheVars, schedVars, cfgVars>>

\* reset() (lines 143-146)
MonitorReset ==
  /\ monitoredOrders' = {}
  /\ evalCount' = [j \in JobIds |-> 0]
  /\ UNCHANGED <<isRunning, checkInterval, timers, pass, initialized, decision>>
  /\ UNCHANGED <<cacheVars, schedVars, cfgVars>>

\* getFieldMapDetails resolved (line 81); the geometry is requested (line 86)
OrderDetailsOk(p, d) ==
  /\ pass[p].pc = "details"
  /\ pass' = [pass EXCEPT ![p].pc = "geometry", ![p].orderDetails = d]
  /\ UNCHANGED <<monitoredOrders, isRunning, checkInterval, timers, initialized, evalCount, decision>>
  /\ UNCHANGED <<cacheVars, schedVars, cfgVars>>

\* OrderDetailsFail treated like a geometry failure: the order is skipped
\* and the loop goes on
OrderDetailsFailSkips(p) ==
  /\ pass[p].pc = "details"
  /\ PassLoop(p, pass[p].owner, pass[p].rest)
  /\ UNCHANGED <<isRunning, initialized, evalCount, decision>>
  /\ UNCHANGED <<cacheVars, schedVars, cfgVars>>

\* getFieldMapDetails rejected (line 81): the outer catch ends the pass
OrderDetailsFail(p) ==
  /\ pass[p].pc = "details"
  /\ PassEnd(p, pass[p].owner)
  /\ UNCHANGED <<isRunning, initialized, evalCount, decision>>
  /\ UNCHANGED <<cacheVars, schedVars, cfgVars>>

Bump(n) == IF n < 2 THEN n + 1 ELSE n

\* downloadFieldMap resolved (lines 86-122): the order is evaluated.  On a
\* notify decision with recipients line 106 calls getCustomMessage, which
\* NotificationConfig does not define: the call throws inside the try and the
\* catch of line 115 logs it.  The loop then runs to its next await.
GeometryOk(p, features) ==
  /\ pass[p].pc = "geometry"
  /\ decision' = Evaluation(pass[p].orderDetails, features)
  /\ evalCount' = [evalCount EXCEPT ![pass[p].order] = Bump(@)]
  /\ PassLoop(p, pass[p].owner, pass[p].rest)
  /\ UNCHANGED <<isRunning, initialized>>
  /\ UNCHANGED <<cacheVars, schedVars, cfgVars>>

\* GeometryFail without the inner try of lines 85-90: the rejection reaches
\* the outer catch and ends the pass
GeometryFailEndsPass(p) ==
  /\ pass[p].pc = "geometry"
  /\ PassEnd(p, pass[p].owner)
  /\ UNCHANGED <<isRunning, initialized, evalCount, decision>>
  /\ UNCHANGED <<cacheVars, schedVars, cfgVars>>

\* downloadFieldMap rejected (lines 87-90): the order is skipped
GeometryFail(p) ==
  /\ pass[p].pc = "geometry"
  /\ PassLoop(p, pass[p].owner, pass[p].rest)
  /\ UNCHANGED <<isRunning, initialized, evalCount, decision>>
  /\ UNCHANGED <<cacheVars, schedVars, cfgVars>>

\* ------------------------------------------------------------------------
\* NotificationConfig operations and the routes that call them
\* ------------------------------------------------------------------------
\* updateConfig (lines 76-80): { ...this.config, ...updates }
MergeConfig(cfg, updates) ==
  [k \in DOMAIN cfg |-> IF k \in DOMAIN updates THEN updates[k] ELSE cfg[k]]

\* saveConfig (lines 50-63) after the mutation that made config': the file
\* receives JSON.stringify(this.config), or writeFile fails, the file stays
\* and the error is rethrown to the mutation's caller
saveConfig ==
  /\ IF writable
       THEN configFile' = config' /\ saveFailed' = FALSE
       ELSE configFile' = configFile /\ saveFailed' = TRUE
  /\ UNCHANGED writable

\* updateConfig undoing its change when saveConfig throws
updateConfigRollsBack(updates) ==
  /\ config' = IF writable THEN MergeConfig(config, updates) ELSE config
  /\ saveConfig
  /\ UNCHANGED <<cacheVars, schedVars, monVars>>

updateConfig(updates) ==
  /\ config' = MergeConfig(config, updates)
  /\ saveConfig
  /\ UNCHANGED <<cacheVars, schedVars, monVars>>

\* addAlwaysNotify (lines 86-92): an address already listed changes nothing
\* and saves nothing
addAlwaysNotify(email) ==
  /\ IF ~Includes(config.alwaysNotify, email)
       THEN /\ config' = [config EXCEPT !.alwaysNotify = Append(@, email)]
            /\ saveConfig
       ELSE UNCHANGED cfgVars
  /\ UNCHANGED <<cacheVars, schedVars, monVars>>

\* removeAlwaysNotify (lines 98-102)
removeAlwaysNotify(email) ==
  /\ config' = [config EXCEPT !.alwaysNotify = SelectSeq(@, LAMBDA e : e # email)]
  /\ saveConfig
  /\ UNCHANGED <<cacheVars, schedVars, monVars>>

\* setContractorEmail (lines 109-113)
setContractorEmail(contractorName, email) ==
  /\ LET old == config.contractorEmails
     IN config' = [config EXCEPT !.contractorEmails =
                     [c \in DOMAIN old \cup {contractorName} |->
                        IF c = contractorName THEN email ELSE old[c]]]
  /\ saveConfig
  /\ UNCHANGED <<cacheVars, schedVars, monVars>>

\* removeContractorEmail (lines 119-123)
removeContractorEmail(contractorName) ==
  /\ LET old == config.contractorEmails
     IN config' = [config EXCEPT !.contractorEmails =
                     [c \in DOMAIN old \ {contractorName} |-> old[c]]]
  /\ saveConfig
  /\ UNCHANGED <<cacheVars, schedVars, monVars>>

\* the configuration file or its directory becomes unwritable, or writable
\* again
SetWritable(b) ==
  /\ writable # b
  /\ writable' = b
  /\ UNCHANGED <<config, configFile, saveFailed, decision>>
  /\ UNCHANGED <<monitoredOrders, isRunning, checkInterval, timers, pass, initialized, evalCount>>
  /\ UNCHANGED <<cacheVars, schedVars>>

\* GET /api/notifications/check/:orderId, once its two fetches have resolved
CheckOrder(order, features) ==
  /\ decision' = Call(order, features)
  /\ UNCHANGED <<monitoredOrders, isRunning, checkInterval, timers, pass, initialized, evalCount>>
  /\ UNCHANGED <<cacheVars, schedVars, cfgVars>>

RuleSets == [outlines : BOOLEAN, exclusion : BOOLEAN, nogo : BOOLEAN, zeroArea : BOOLEAN]
EnableUpdates == {[enabled |-> b] : b \in BOOLEAN}
RuleUpdates == {[notificationRules |-> r] : r \in RuleSets}

InitExceptConfig ==
  /\ clock = StartTime
  /\ upstream = [modified_date |-> 1, deleted |-> FALSE, at |-> StartTime - fromDateOverlap - 1]
  /\ objs = <<>>
  /\ fieldMapsCache = [a \in Accounts |-> NoObj]
  /\ refresh = [c \in Callers |-> IdleRefresh]
  /\ everFetched = <<>>
  /\ fetchedSince = <<>>
  /\ lastReturned = <<>>
  /\ last = NoLast
  /\ intervalId = FALSE
  /\ intervals = 0
  /\ isSyncing = FALSE
  /\ lastSyncTime = 0
  /\ lastSyncStatus = "null"
  /\ lastSyncError = "null"
  /\ syncCount = 0
  /\ syncResult = [s \in SyncCalls |-> "none"]
  /\ monitoredOrders = {}
  /\ isRunning = FALSE
  /\ checkInterval = FALSE
  /\ timers = 0
  /\ pass = [p \in Passes |-> IdlePass]
  /\ initialized = FALSE
  /\ evalCount = [j \in JobIds |-> 0]
  /\ decision = NoCall
  /\ writable = TRUE
  /\ saveFailed = FALSE

\* no notification-config.json: the defaults stay, and loadConfig writes them
\* to the file (lines 36-40)
Init == InitExceptConfig /\ config = DefaultConfig /\ configFile = config

\* loadConfig (lines 31-35): a stored notification-config.json is laid over the defaults
StoredConfigs ==
  {MergeConfig(MergeConfig(DefaultConfig, e), r) : e \in EnableUpdates, r \in RuleUpdates}

InitStored == InitExceptConfig /\ config \in StoredConfigs /\ configFile = config

\* a stored notification-config.json with recipients: any always-notify list
\* (repeats included) and any mapping of the contractor
AlwaysLists == UNION {[1..n -> Emails] : n \in 0..MaxAlways}
Mappings == {[c \in {} |-> ""]} \cup {[c \in Contractors |-> e] : e \in Emails \cup {""}}
RecipientConfigs ==
  {MergeConfig(DefaultConfig, [alwaysNotify |-> a, contractorEmails |-> m]) :
     a \in AlwaysLists, m \in Mappings}

InitRecipients == InitExceptConfig /\ config \in RecipientConfigs /\ configFile = config

\* a stored notification-config.json with notifications enabled, with and
\* without an always-notify address and a mapping of the contractor
DispatchConfigs ==
  {MergeConfig(DefaultConfig, [enabled |-> TRUE, alwaysNotify |-> a, contractorEmails |-> m]) :
     a \in {<<>>, <<"a@x.com">>},
     m \in {[c \in {} |-> ""], [c \in Contractors |-> "b@x.com"]}}

InitDispatch == InitExceptConfig /\ config \in DispatchConfigs /\ configFile = config

\* one request at a time refreshing the configured account
Next ==
  \/ Request("req1", accountId)
  \/ \E mods \in ModLists : ListOk("req1", mods)
  \/ ListFail("req1")
  \/ \E j \in JobIds, v \in Versions : DetailOk("req1", j, v)
  \/ \E j \in JobIds : DetailFail("req1", j)
  \/ \E d \in TickSteps : Tick(d)

Spec == Init /\ [][Next]_vars

\* two requests refreshing the configured account at the same time
NextRace ==
  \/ \E c \in Requests : Request(c, accountId)
  \/ \E c \in Requests, mods \in RaceLists : ListOk(c, mods)
  \/ \E c \in Requests : ListFail(c)
  \/ \E c \in Requests, v \in Versions : DetailOk(c, 1, v)
  \/ \E c \in Requests : DetailFail(c, 1)
  \/ \E d \in TickSteps : Tick(d)

SpecRace == Init /\ [][NextRace]_vars

\* the scheduler: timer-triggered and manual sync() calls
NextSched ==
  \/ \E s \in SyncCalls : SchedulerStart(s)
  \/ \E s \in SyncCalls : SchedulerTimer(s)
  \/ \E s \in SyncCalls : ManualSync(s)
  \/ SchedulerStop
  \/ \E s \in SyncCalls, mods \in RaceLists : ListOk(s, mods)
  \/ \E s \in SyncCalls : ListFail(s)
  \/ \E s \in SyncCalls, v \in Versions : DetailOk(s, 1, v)
  \/ \E s \in SyncCalls : DetailFail(s, 1)
  \/ \E d \in TickSteps : Tick(d)

SpecSched == Init /\ [][NextSched]_vars

\* the scheduler driven by start(), stop() and its interval alone: every run
\* is the initial sync of a start() or a firing of the interval
NextSchedTimer ==
  \/ \E s \in SyncCalls : SchedulerStart(s)
  \/ \E s \in SyncCalls : SchedulerTimer(s)
  \/ SchedulerStop
  \/ \E s \in SyncCalls, mods \in RaceLists : ListOk(s, mods)
  \/ \E s \in SyncCalls : ListFail(s)
  \/ \E s \in SyncCalls, v \in Versions : DetailOk(s, 1, v)
  \/ \E s \in SyncCalls : DetailFail(s, 1)

SpecSchedTimer == Init /\ [][NextSchedTimer]_vars

\* job 1 is modified upstream, or deleted (which upstream records as a
\* modification too)
UpstreamModify ==
  /\ ~upstream.deleted
  /\ upstream.modified_date = 1
  /\ upstream' = [upstream EXCEPT !.modified_date = 2, !.at = clock]
  /\ UNCHANGED <<clock, objs, fieldMapsCache, refresh, everFetched, fetchedSince, lastReturned, last>>
  /\ UNCHANGED <<schedVars, monVars, cfgVars>>

UpstreamDelete ==
  /\ ~upstream.deleted
  /\ upstream' = [upstream EXCEPT !.deleted = TRUE, !.at = clock]
  /\ UNCHANGED <<clock, objs, fieldMapsCache, refresh, everFetched, fetchedSince, lastReturned, last>>
  /\ UNCHANGED <<schedVars, monVars, cfgVars>>

\* what upstream answers to the modified-list request r, include_deleted
\* being set: the job if it was modified at or after from_date
UpstreamAnswer(r) ==
  IF upstream.at >= ListRequest(r).from_date * TicksPerSecond
    THEN <<[id |-> 1, modified_date |-> upstream.modified_date, deleted |-> upstream.deleted]>>
    ELSE <<>>

\* two requests refreshing the configured account against an upstream that
\* holds job 1, answers each poll from its record and changes it meanwhile
NextUpstream ==
  \/ \E c \in Requests : Request(c, accountId)
  \/ \E c \in Requests : ListOk(c, UpstreamAnswer(refresh[c]))
  \/ \E c \in Requests : ListFail(c)
  \/ \E c \in Requests : DetailOk(c, 1, upstream.modified_date)
  \/ \E c \in Requests : DetailFail(c, 1)
  \/ UpstreamModify
  \/ UpstreamDelete
  \/ \E d \in TickSteps : Tick(d)

SpecUpstream == Init /\ [][NextUpstream]_vars

\* the upstream answers every modified-list request and every detail request
\* sync() awaits (axios settles each call, by a response or by its 30 s timeout)
UpstreamAnswers ==
  /\ WF_vars(\E s \in SyncCalls : ListFail(s) \/ \E mods \in RaceLists : ListOk(s, mods))
  /\ WF_vars(\E s \in SyncCalls : DetailFail(s, 1) \/ \E v \in Versions : DetailOk(s, 1, v))

\* the scheduler's runs at one instant: the calls of sync() and the upstream's
\* answers to them
NextSettle ==
  \/ \E s \in SyncCalls : SchedulerStart(s)
  \/ \E s \in SyncCalls : SchedulerTimer(s)
  \/ \E s \in SyncCalls : ManualSync(s)
  \/ SchedulerStop
  \/ \E s \in SyncCalls, mods \in RaceLists : ListOk(s, mods)
  \/ \E s \in SyncCalls : ListFail(s)
  \/ \E s \in SyncCalls, v \in Versions : DetailOk(s, 1, v)
  \/ \E s \in SyncCalls : DetailFail(s, 1)

\* the scheduler with an upstream that eventually answers
SpecSchedFair == Init /\ [][NextSettle]_vars /\ UpstreamAnswers

\* the order monitor: start, stop, reset, the interval, and the passes' awaits
NextMonitor ==
  \/ \E p \in Passes : MonitorStart(p)
  \/ \E p \in Passes : MonitorTimer(p)
  \/ MonitorStop
  \/ MonitorReset
  \/ \E u \in EnableUpdates : updateConfig(u)
  \/ \E p \in Passes, mods \in LiveLists : ListOk(p, mods)
  \/ \E p \in Passes : ListFail(p)
  \/ \E p \in Passes, j \in JobIds : DetailOk(p, j, 1)
  \/ \E p \in Passes : OrderDetailsOk(p, [contractor |-> "AcmeCo", area |-> 0])
  \/ \E p \in Passes : OrderDetailsFail(p)
  \/ \E p \in Passes : GeometryOk(p, <<[template_type |-> "outlines"]>>)
  \/ \E p \in Passes : GeometryFail(p)

SpecMonitor == Init /\ [][NextMonitor]_vars

\* the monitor's check passes under an enabled configuration: one pass at a
\* time, orders with and without a contractor, geometry with and without an
\* outlines feature
NextDispatch ==
  \/ MonitorStart("pass1")
  \/ MonitorTimer("pass1")
  \/ \E mods \in LiveLists : ListOk("pass1", mods)
  \/ ListFail("pass1")
  \/ \E j \in JobIds : DetailOk("pass1", j, 1)
  \/ \E j \in JobIds : DetailFail("pass1", j)
  \/ \E d \in {o \in OrderDetails : o.area = 1} : OrderDetailsOk("pass1", d)
  \/ OrderDetailsFail("pass1")
  \/ \E f \in {<<>>, <<[template_type |-> "outlines"]>>} : GeometryOk("pass1", f)
  \/ GeometryFail("pass1")

SpecDispatch == InitDispatch /\ [][NextDispatch]_vars

\* the monitor while notifications are switched off and on: one pass at a
\* time, starting from the defaults (disabled)
NextToggle ==
  \/ MonitorStart("pass1")
  \/ MonitorTimer("pass1")
  \/ MonitorStop
  \/ \E u \in EnableUpdates : updateConfig(u)
  \/ \E mods \in LiveLists : ListOk("pass1", mods)
  \/ ListFail("pass1")
  \/ \E j \in JobIds : DetailOk("pass1", j, 1)
  \/ OrderDetailsOk("pass1", [contractor |-> "AcmeCo", area |-> 0])
  \/ GeometryOk("pass1", <<[template_type |-> "outlines"]>>)
  \/ GeometryFail("pass1")

SpecToggle == Init /\ [][NextToggle]_vars

\* one request at a time for either account, and
\* DELETE /api/field-maps/cache/clear with and without a customerId
NextClear ==
  \/ \E a \in Accounts : Request("req1", a)
  \/ \E a \in Accounts \cup {""} : clearCache(a)
  \/ \E mods \in LiveLists : ListOk("req1", mods)
  \/ ListFail("req1")
  \/ \E j \in JobIds : DetailOk("req1", j, 1)
  \/ \E j \in JobIds : DetailFail("req1", j)

SpecClear == Init /\ [][NextClear]_vars

\* the decision engine applied under any stored rule set to any order and any
\* feature list
NextNotify ==
  \E o \in {d \in OrderDetails : d.contractor = ""}, f \in FeatureLists : CheckOrder(o, f)

SpecNotify == InitStored /\ [][NextNotify]_vars

\* recipient resolution under any stored recipients, for an order of the mapped
\* contractor and for one without contractor
NextRecipients ==
  \E o \in {d \in OrderDetails : d.area = 1} : CheckOrder(o, <<>>)

SpecRecipients == InitRecipients /\ [][NextRecipients]_vars


\* the bodies of POST /api/notifications/config: the enabled flag, or
\* notificationRules or emailConfig carrying any of their fields
RuleNames == {"outlines", "exclusion", "nogo", "zeroArea"}
EmailFields == {"smtpHost", "smtpPassword"}
SmtpValues == {"", "smtp.example.com"}
PasswordValues == {"", "pw1", "pw2"}
ConfigUpdates ==
  EnableUpdates
    \cup {[notificationRules |-> r] : r \in UNION {[S -> BOOLEAN] : S \in SUBSET RuleNames}}
    \cup {[emailConfig |-> e] :
            e \in {x \in UNION {[S -> SmtpValues \cup PasswordValues] : S \in SUBSET EmailFields} :
                     /\ "smtpHost" \in DOMAIN x => x.smtpHost \in SmtpValues
                     /\ "smtpPassword" \in DOMAIN x => x.smtpPassword \in PasswordValues}}

\* config.emailConfig.smtpPassword as JavaScript reads it: a missing field is
\* undefined, which is falsy like the empty string
StoredPassword(cfg) ==
  IF "smtpPassword" \in DOMAIN cfg.emailConfig THEN cfg.emailConfig.smtpPassword ELSE ""

\* the body GET /api/notifications/config answers with (lines 13-26)
GetConfigResponse(cfg) ==
  [success |-> TRUE,
   data |-> [cfg EXCEPT !.emailConfig =
               [f \in DOMAIN cfg.emailConfig \cup {"smtpPassword"} |->
                  IF f = "smtpPassword"
                    THEN IF StoredPassword(cfg) # "" THEN "***hidden***" ELSE ""
                    ELSE cfg.emailConfig[f]]]]

\* the body POST /api/notifications/config answers with, updatedConfig being
\* what updateConfig returned (lines 45-56)
PostConfigResponse(updatedConfig) ==
  [success |-> TRUE, message |-> "Configuration updated successfully", data |-> updatedConfig]

\* the order GET /check/:orderId is asked about: one of the mapped
\* contractor, with an outlines feature
CheckedOrder == [contractor |-> "AcmeCo", area |-> 1]
CheckedFeatures == <<[template_type |-> "outlines"]>>

\* every mutation of the configuration while the file can and cannot be
\* written, and the decision and recipients the service then gives for an
\* order of the mapped contractor
NextPersist ==
  \/ \E u \in EnableUpdates : updateConfig(u)
  \/ \E e \in Emails : addAlwaysNotify(e)
  \/ \E e \in Emails : removeAlwaysNotify(e)
  \/ \E c \in Contractors, e \in Emails : setContractorEmail(c, e)
  \/ \E c \in Contractors : removeContractorEmail(c)
  \/ \E b \in BOOLEAN : SetWritable(b)
  \/ CheckOrder(CheckedOrder, CheckedFeatures)

SpecPersist == Init /\ [][NextPersist]_vars

\* the configuration under POST /api/notifications/config, from the defaults
NextConfig == \E u \in ConfigUpdates : updateConfig(u)

SpecConfig == Init /\ [][NextConfig]_vars

\* ------------------------------------------------------------------------
\* Claims
\* ------------------------------------------------------------------------
InFlight(c) == refresh[c].pc # "idle"
Quiescent == \A c \in Callers : ~InFlight(c)

\* C1: a sync() call made while a run is in progress returns "skipped" and
\* calls no refresh, and never are two scheduler refreshes in flight.
C1_SchedulerMutex ==
  /\ [](/\ Cardinality({s \in SyncCalls : InFlight(s)}) <= 1
        /\ \A s \in SyncCalls : InFlight(s) => isSyncing /\ syncResult[s] = "running"
        /\ \A s \in SyncCalls : syncResult[s] = "skipped" => ~InFlight(s))
  /\ [][\A s \in SyncCalls :
          (isSyncing /\ syncResult[s] # "running" /\ syncResult'[s] # syncResult[s])
            => (syncResult'[s] = "skipped" /\ refresh' = refresh /\ objs' = objs)]_vars

C1_Witness ==
  \E s, t \in SyncCalls : InFlight(s) /\ syncResult[s] = "running" /\ syncResult[t] = "skipped"

\* C2: shouldNotify is called at most once per job id between two reset() calls.
C2_AtMostOnce == \A j \in JobIds : evalCount[j] <= 1

\* C3: when the modified-list call fails the refresh throws, and neither its
\* start (on an account that already has state) nor its failure changes any
\* cached state.
C3_LastGoodCache ==
  [][\A c \in Callers :
       /\ ListFail(c) => (objs' = objs /\ fieldMapsCache' = fieldMapsCache
                          /\ last'.kind = "threw" /\ last'.caller = c)
       /\ \A a \in Accounts :
            (BeginRefresh(c, a) /\ fieldMapsCache[a] # NoObj)
              => (objs' = objs /\ fieldMapsCache' = fieldMapsCache)]_vars

C3_Witness ==
  /\ last.kind = "threw"
  /\ Len(objs[last.cache].fullJobList) > 0
  /\ DOMAIN objs[last.cache].jobDetailsCache # {}

\* C4 as claimed: lastSyncDate never moves backwards.
C4_NeverBackwards ==
  [][\A o \in DOMAIN objs : objs'[o].lastSyncDate >= objs[o].lastSyncDate]_vars

\* C4 amended: lastSyncDate changes only in the step in which a refresh
\* completes its merge, and becomes that refresh's start time, which is no
\* earlier than the lastSyncDate that refresh read when it started.
C4_SetToStartOfMergingRefresh ==
  [][\A o \in DOMAIN objs :
       objs'[o].lastSyncDate # objs[o].lastSyncDate
         => \E c \in Callers :
              /\ InFlight(c) /\ refresh[c].cache = o /\ refresh'[c].pc = "idle"
              /\ last'.kind = "merged" /\ last'.caller = c
              /\ objs'[o].lastSyncDate = refresh[c].now
              /\ refresh[c].now >= refresh[c].fromDate + fromDateOverlap]_vars

C4_Witness ==
  /\ last.kind = "merged"
  /\ \E c \in Callers : /\ InFlight(c) /\ refresh[c].cache = last.cache
                        /\ refresh[c].now < objs[last.cache].lastSyncDate

\* C5 as claimed: with no refresh in flight, a job in fullJobList has a detail
\* entry exactly if its detail was ever fetched successfully.
C5_DetailIffEverFetched ==
  Quiescent =>
    \A o \in DOMAIN objs : \A j \in Ids(objs[o].fullJobList) :
      (j \in DOMAIN objs[o].jobDetailsCache) <=> (j \in everFetched[o])

\* C5 amended: a job in fullJobList has a detail entry exactly if its detail
\* was fetched successfully since the id was last removed as deleted.
C5_DetailIffFetchedSinceRemoval ==
  \A o \in DOMAIN objs : \A j \in Ids(objs[o].fullJobList) :
    (j \in DOMAIN objs[o].jobDetailsCache) <=> (j \in fetchedSince[o])

C5_Witness ==
  /\ Quiescent
  /\ \E o \in DOMAIN objs : \E j \in Ids(objs[o].fullJobList) :
       j \notin DOMAIN objs[o].jobDetailsCache /\ j \in everFetched[o]

\* C6: when a refresh completes its merge, every job its modified list marked
\* deleted is absent from the list it returns, from fullJobList and from the
\* detail cache.
C6_DeletedAbsent ==
  [][\A c \in Callers :
       (InFlight(c) /\ refresh'[c].pc = "idle" /\ last'.kind = "merged" /\ last'.caller = c)
         => LET o == refresh[c].cache
            IN \A j \in last'.deleted :
                 /\ j \notin Ids(objs'[o].fullJobList)
                 /\ j \notin DOMAIN objs'[o].jobDetailsCache
                 /\ \A i \in DOMAIN lastReturned'[o] : lastReturned'[o][i].id # j]_vars

C6_Witness ==
  /\ last.kind = "merged"
  /\ \E j \in last.deleted : j \in everFetched[last.cache]
  /\ Len(objs[last.cache].fullJobList) > 0

Stale(mods, detailsCache) ==
  {j \in Ids(mods) :
     \/ j \notin DOMAIN detailsCache
     \/ \E i \in DOMAIN mods : mods[i].id = j /\ mods[i].modified_date # detailsCache[j].modified_date}

\* C8: a refresh that does not short-circuit issues detail fetches for exactly
\* the stale jobs of its modified list; on an empty cache that is every job of
\* the list, and with none deleted the merge leaves exactly those ids.
C8_MinimalRefetch ==
  [][\A c \in Callers :
       LET o == refresh[c].cache
       IN /\ (refresh[c].pc = "list" /\ refresh'[c].pc # "list")
               => \A mods \in ModLists :
                    (ListOk(c, mods) /\ ~ShortCircuit(mods, refresh[c].cacheValid, objs[o]))
                      => /\ (IF refresh'[c].pc = "details" THEN refresh'[c].pending ELSE {})
                              = Stale(mods, objs[o].jobDetailsCache)
                         /\ DOMAIN objs[o].jobDetailsCache = {}
                              => Cardinality(refresh'[c].pending) = Len(mods)
          /\ (/\ refresh[c].pc = "details" /\ refresh'[c].pc = "idle"
              /\ objs[o].fullJobList = <<>>
              /\ DeletedIds(refresh[c].modifiedJobs) = {})
               => Ids(objs'[o].fullJobList) = Ids(refresh[c].modifiedJobs)]_vars

C8_Witness ==
  \E c \in Callers :
    /\ refresh[c].pc = "details"
    /\ refresh[c].jobsNeedingDetails # {}
    /\ refresh[c].jobsNeedingDetails # Ids(refresh[c].modifiedJobs)

\* the four triggers in their fixed order, and whether trigger k fires
Triggers == <<"reference_field", "exclusion_zone", "nogo_zone", "zero_area">>
Tags(features) == {features[i].template_type : i \in DOMAIN features}
Fires(cfg, order, features, k) ==
  CASE k = 1 -> cfg.notificationRules.outlines /\ "outlines" \in Tags(features)
    [] k = 2 -> cfg.notificationRules.exclusion /\ "exclusion" \in Tags(features)
    [] k = 3 -> cfg.notificationRules.nogo /\ "nogo" \in Tags(features)
    [] k = 4 -> cfg.notificationRules.zeroArea /\ order.area = 0
Firing(cfg, order, features) == {k \in 1..4 : Fires(cfg, order, features, k)}

\* C9: with notifications enabled, the reported trigger is the first of the
\* four, in their fixed order, whose rule is enabled and whose condition holds.
C9_TriggerPriority ==
  [][(decision' # decision /\ config.enabled)
       => LET K == Firing(config, decision'.order, decision'.features)
          IN K # {} => /\ decision'.result.notify
                       /\ \E k \in K : /\ \A m \in K : k <= m
                                       /\ decision'.result.reason = Triggers[k]]_vars

C9_Witness ==
  /\ decision.called
  /\ {"outlines", "exclusion", "nogo"} \subseteq Tags(decision.features)
  /\ decision.order.area = 0
  /\ decision.result.reason = "exclusion_zone"

\* C10: with notifications enabled, the zero-area rule enabled and no template
\* rule firing, area 0 gives notify with trigger zero_area; zero_area is never
\* reported for a non-zero area or with the zero-area rule disabled.
C10_ZeroArea ==
  [][decision' # decision
       => LET K == Firing(config, decision'.order, decision'.features)
          IN /\ (config.enabled /\ config.notificationRules.zeroArea /\ K \cap {1, 2, 3} = {}
                 /\ decision'.order.area = 0)
                  => (decision'.result.notify /\ decision'.result.reason = "zero_area")
             /\ decision'.result.reason = "zero_area"
                  => (decision'.order.area = 0 /\ config.notificationRules.zeroArea
                      /\ config.enabled)]_vars

C10_Witness ==
  /\ decision.called
  /\ decision.result.reason = "zero_area"
  /\ Tags(decision.features) \cap {"outlines", "exclusion", "nogo"} # {}

\* C11: shouldNotify answers notify exactly when notifications are enabled and
\* some enabled trigger fires; disabled gives the disabled reason, enabled with
\* nothing firing gives the no-triggers reason; the configuration is not changed.
C11_NotifyIffEnabledAndFiring ==
  [][decision' # decision
       => LET K == Firing(config, decision'.order, decision'.features)
              res == decision'.result
          IN /\ res.notify <=> (config.enabled /\ K # {})
             /\ ~config.enabled => res.reason = "Notifications disabled"
             /\ (config.enabled /\ K = {}) => res.reason = "No triggers matched"
             /\ config' = config]_vars

C11_Witness ==
  /\ decision.called
  /\ config.enabled
  /\ Tags(decision.features) \cap {"outlines", "exclusion", "nogo"} # {}
  /\ decision.order.area = 0
  /\ decision.result.reason = "No triggers matched"

\* the addresses getRecipients draws from, in order
RecipientSources(cfg, contractorName) ==
  IF /\ contractorName # ""
     /\ contractorName \in DOMAIN cfg.contractorEmails
     /\ cfg.contractorEmails[contractorName] # ""
    THEN cfg.alwaysNotify \o <<cfg.contractorEmails[contractorName]>>
    ELSE cfg.alwaysNotify
FirstIndex(seq, x) == CHOOSE i \in DOMAIN seq : seq[i] = x /\ \A k \in 1..(i - 1) : seq[k] # x

\* C12: getRecipients returns the addresses of the always-notify list followed
\* by the contractor's mapped address, each once, in the order of their first
\* occurrence, and does not change the configuration.
C12_RecipientsDeduped ==
  /\ [](decision.called =>
          LET src == RecipientSources(config, decision.order.contractor)
              res == decision.recipients
          IN /\ {res[i] : i \in DOMAIN res} = {src[i] : i \in DOMAIN src}
             /\ \A i, j \in DOMAIN res : i < j =>
                  /\ res[i] # res[j]
                  /\ FirstIndex(src, res[i]) < FirstIndex(src, res[j]))
  /\ [][config' = config]_vars

C12_Witness ==
  /\ decision.called
  /\ decision.order.contractor = "AcmeCo"
  /\ Len(config.alwaysNotify) = 3
  /\ Len(RecipientSources(config, "AcmeCo")) = 4
  /\ Len(decision.recipients) = 2
  /\ decision.recipients[1] # config.alwaysNotify[2]

\* C13: every sync() run that is not skipped, ending in success or in failure,
\* increases syncCount by exactly one, and syncCount never decreases.
C13_EveryRunCounts ==
  [][/\ \A s \in SyncCalls :
          (syncResult[s] = "running" /\ syncResult'[s] # "running")
            => syncCount' = syncCount + 1
     /\ syncCount' >= syncCount]_vars

\* C14: with an upstream that eventually answers, every sync() run that is
\* not skipped eventually settles and leaves isSyncing false; a run that
\* fails ends with lastSyncStatus "failed" and the error text recorded, a run
\* that succeeds with "success" and lastSyncError cleared; either way it
\* resolves with a result, and isSyncing is true only while a run is in
\* flight, so a failed run never makes a later one skip.
C14_SyncSettles ==
  /\ \A s \in SyncCalls : (syncResult[s] = "running") ~> (syncResult[s] \in {"success", "failed"})
  /\ [](isSyncing <=> \E s \in SyncCalls : syncResult[s] = "running")
  /\ [][\A s \in SyncCalls :
          (syncResult[s] = "running" /\ syncResult'[s] # "running")
            => /\ ~isSyncing'
               /\ syncResult'[s] = "failed"
                    => lastSyncStatus' = "failed" /\ lastSyncError' = "error.message"
               /\ syncResult'[s] = "success"
                    => lastSyncStatus' = "success" /\ lastSyncError' = "null"
               /\ syncResult'[s] \in {"success", "failed"}]_vars

\* a run failed and a later run then succeeded
C14_Witness ==
  /\ \E s, t \in SyncCalls : syncResult[s] = "failed" /\ syncResult[t] = "success"
  /\ lastSyncStatus = "success"
  /\ lastSyncError = "null"
  /\ ~isSyncing

\* C15: once stop() has been called and start() not called again, no interval
\* timer is armed and no further check pass is started, also when stop() came
\* while start() was still awaiting its initial pass.
C15_StoppedStaysStopped ==
  /\ [](~isRunning => timers = 0)
  /\ [][(~isRunning /\ ~isRunning')
          => \A p \in Passes : pass[p].pc = "idle" => pass'[p].pc = "idle"]_vars

\* C16: at most one interval timer is armed at any time, and the monitor
\* reports running whenever a timer is armed.
C16_OneTimerAndRunning ==
  /\ timers <= 1
  /\ timers > 0 => isRunning

\* C17: no partial commit.  The shared cached state of an account (job list,
\* detail cache, timestamps) changes only in the step in which a refresh
\* working on it has had its whole detail batch settle and merges; while the
\* batch is still pending, nothing of it is visible to another reader.
C17_NoPartialCommit ==
  [][\A o \in DOMAIN objs :
        objs'[o] # objs[o]
          => \E c \in Callers : /\ InFlight(c)
                                /\ refresh[c].cache = o
                                /\ refresh'[c].pc = "idle"]_vars

\* the detail-cache entry of job j: a singleton, or empty when absent
EntryOf(detailsCache, j) == IF j \in DOMAIN detailsCache THEN {detailsCache[j]} ELSE {}

\* What a refresh with a detail batch does, step by step.  While the batch is
\* pending, the entry of job j changes only by j's own fetch succeeding, which
\* replaces it; a failed fetch leaves it.  The step in which the last fetch
\* settles, failed or not, merges: the refresh returns, every live job of the
\* modified list is in fullJobList and every deleted one is out, lastSyncDate
\* is the refresh's start time, and the returned list is the job list.  With
\* exceptDeleted the merge also removes the entry of every job marked deleted.
DetailBatch(c, exceptDeleted) ==
  refresh[c].pc = "details" =>
    LET r == refresh[c]
        o == r.cache
        before == objs[o].jobDetailsCache
        after == objs'[o].jobDetailsCache
        done == refresh'[c].pc = "idle"
        gone == IF exceptDeleted /\ done THEN DeletedIds(r.modifiedJobs) ELSE {}
    IN /\ \A j \in JobIds :
            IF j \in gone THEN EntryOf(after, j) = {}
            ELSE /\ \A v \in Versions : DetailOk(c, j, v) => EntryOf(after, j) = {DetailAt(j, v)}
                 /\ DetailFail(c, j) => EntryOf(after, j) = EntryOf(before, j)
                 /\ (~DetailFail(c, j) /\ \A v \in Versions : ~DetailOk(c, j, v))
                      => EntryOf(after, j) = EntryOf(before, j)
       /\ done =>
            /\ last'.kind = "merged" /\ last'.caller = c
            /\ \A i \in DOMAIN r.modifiedJobs :
                 IF r.modifiedJobs[i].deleted
                   THEN r.modifiedJobs[i].id \notin Ids(objs'[o].fullJobList)
                   ELSE Includes(objs'[o].fullJobList, r.modifiedJobs[i])
            /\ objs'[o].lastSyncDate = r.now
            /\ objs'[o].lastSyncDate >= objs[o].lastSyncDate
            /\ Ids(lastReturned'[o]) = Ids(objs'[o].fullJobList)

\* C18 as stated: a failed detail fetch does not fail the refresh, which
\* still returns, merges every modified job, advances lastSyncDate and returns
\* every non-deleted job; the detail entry of each failed job is exactly as it
\* was before, the entries of the successful ones are replaced.
C18_FailedEntryLeft == [][\A c \in Requests : DetailBatch(c, FALSE)]_vars

\* C18 amended: the same, except that the merge removes the detail entry of
\* every job the modified list marks deleted, whether its fetch failed or
\* succeeded; the entries of failed jobs not marked deleted are as before.
C18_FailedEntryLeftUnlessDeleted == [][\A c \in Requests : DetailBatch(c, TRUE)]_vars

\* a refresh has merged with one job's detail fetched and another's failed:
\* both jobs are listed, one has a detail entry and the other none
C18_Witness ==
  /\ last.kind = "merged"
  /\ LET cache == objs[last.cache]
     IN /\ Ids(cache.fullJobList) = JobIds
        /\ \E j, k \in JobIds : /\ j \in DOMAIN cache.jobDetailsCache
                                /\ k \notin DOMAIN cache.jobDetailsCache

\* the try block of lines 103-114 was entered for the order just evaluated
SendAttempted == decision.result.notify /\ decision.recipients # <<>>

\* C19: a geometry-fetch failure or a notification-send failure for one newly
\* seen job does not end the pass and does not stop the monitor: in the same
\* step the loop goes on to the next job of the list not yet seen, which is
\* added to the seen set and has its detail requested; the pass ends only
\* when no unseen job remains.
C19_FailureIsolated ==
  [][\A p \in Passes :
       (/\ pass[p].pc = "geometry"
        /\ \/ GeometryFail(p)
           \/ /\ \E f \in FeatureLists : GeometryOk(p, f)
              /\ SendAttempted' /\ ~decision'.sent)
         => LET r == SkipMonitored(pass[p].rest, monitoredOrders)
            IN /\ isRunning' = isRunning
               /\ timers' >= timers
               /\ pass[p].order \in monitoredOrders'
               /\ IF r = <<>> THEN pass'[p].pc = "idle" /\ monitoredOrders' = monitoredOrders
                  ELSE /\ pass'[p].pc = "details"
                       /\ pass'[p].order = Head(r)
                       /\ pass'[p].rest = Tail(r)
                       /\ monitoredOrders' = monitoredOrders \cup {Head(r)}]_vars

\* job 1's geometry fetch failed, so it was never evaluated; job 2 was then
\* evaluated all the same, and its send failed
C19_Witness ==
  /\ 1 \in monitoredOrders
  /\ evalCount[1] = 0
  /\ evalCount[2] = 1
  /\ SendAttempted /\ ~decision.sent

\* C20: when a newly seen job's detail and geometry fetches succeed, the
\* pass calls emailService.sendOrderNotification for it exactly when the
\* decision is notify and the resolved recipient list is not empty.
C20_SentIffNotifyAndRecipients ==
  decision.called => (decision.sent <=> SendAttempted)

\* C21: a check pass begun while notifications are disabled does nothing: no
\* Sync Cache or upstream call is made, nothing is evaluated or sent, and the
\* seen set is unchanged, so the pass is over at once and every job stays
\* unseen for the passes run once notifications are enabled.
C21_DisabledPassDoesNothing ==
  [][\A p \in Passes :
       (~config.enabled /\ (MonitorStart(p) \/ MonitorTimer(p)))
         => /\ UNCHANGED <<cacheVars, monitoredOrders, evalCount, decision>>
            /\ pass'[p].pc = "idle"]_vars

\* start() ran its pass while disabled (no cache was ever created, nothing
\* is seen), notifications are now enabled and the timer is armed for the
\* pass that will evaluate the jobs
C21_Witness ==
  /\ timers = 1
  /\ objs = <<>>
  /\ monitoredOrders = {}
  /\ config.enabled

\* the from-date, in epoch seconds, of a first-ever refresh begun at time t
SeedEpoch(t) == (t - firstSyncAge - fromDateOverlap) \div TicksPerSecond

\* C22: clearCache(a) removes exactly account a's cached state and leaves
\* every other account's unchanged; clearCache() removes every account's; the
\* next refresh of an account without cached state, cleared or never
\* refreshed, starts from a new empty cache: its from-date is the 90-day seed
\* less the overlap, and, no other refresh having touched the new cache,
\* every job the modified list returns has its detail fetched.
C22_ClearIsExact ==
  [][/\ \A a \in Accounts :
          clearCache(a) => /\ fieldMapsCache'[a] = NoObj
                           /\ \A b \in Accounts \ {a} : fieldMapsCache'[b] = fieldMapsCache[b]
                           /\ objs' = objs
     /\ clearCache("") => (\A b \in Accounts : fieldMapsCache'[b] = NoObj) /\ objs' = objs
     /\ \A c \in Requests, a \in Accounts :
          (fieldMapsCache[a] = NoObj /\ Request(c, a))
            => /\ refresh'[c].cache \notin DOMAIN objs
               /\ fieldMapsCache'[a] = refresh'[c].cache
               /\ objs'[refresh'[c].cache] = NewCache(clock)
               /\ refresh'[c].fromDateEpoch = SeedEpoch(clock)
     /\ \A c \in Requests :
          (refresh[c].pc = "list" /\ objs[refresh[c].cache] = NewCache(refresh[c].now))
            => \A mods \in LiveLists :
                 ListOk(c, mods) => IF mods = <<>> THEN refresh'[c].pc = "idle"
                                    ELSE /\ refresh'[c].pc = "details"
                                         /\ refresh'[c].pending = Ids(mods)]_vars

\* an account was refreshed and merged, then cleared, which detached its cache
\* object; both accounts are cached again, and the configured account's
\* refresh works on the attached object and awaits the details of every
\* listed job
C22_Witness ==
  \E o \in DOMAIN objs :
    /\ o \notin {fieldMapsCache[a] : a \in Accounts}
    /\ objs[o].fullJobList # <<>>
    /\ fieldMapsCache["123"] # NoObj
    /\ fieldMapsCache[accountId] # NoObj
    /\ \E c \in Requests : /\ refresh[c].pc = "details"
                           /\ refresh[c].account = accountId
                           /\ refresh[c].cache = fieldMapsCache[accountId]
                           /\ refresh[c].pending = JobIds

\* some refresh of cache object o has completed its merge
Merged(o) == objs[o].lastSyncDate >= StartTime

\* C23: no full re-poll after the first sync.  A merge stamps the account's
\* lastSyncDate with the start time of the merging refresh, nothing else
\* changes the lastSyncDate of a cache, and a refresh begun on a cache some
\* refresh has merged into polls from that lastSyncDate less 5 minutes: the
\* start time of an earlier refresh less the overlap, never the 90-day seed.
C23_NoFullRepoll ==
  [][\A c \in Requests :
       /\ (InFlight(c) /\ refresh'[c].pc = "idle" /\ last'.kind = "merged")
            => objs'[refresh[c].cache].lastSyncDate = refresh[c].now
       /\ \A o \in DOMAIN objs :
            objs'[o].lastSyncDate # objs[o].lastSyncDate
              => \E d \in Requests : /\ InFlight(d) /\ refresh[d].cache = o
                                     /\ objs'[o].lastSyncDate = refresh[d].now
       /\ (~InFlight(c) /\ InFlight(c)')
            => LET o == fieldMapsCache[refresh'[c].account]
               IN (o # NoObj /\ Merged(o))
                    => /\ refresh'[c].fromDate = objs[o].lastSyncDate - fromDateOverlap
                       /\ refresh'[c].fromDateEpoch = FromDateEpoch(refresh'[c].fromDate)
                       /\ objs[o].lastSyncDate <= clock
                       /\ refresh'[c].fromDate > clock - firstSyncAge]_vars

\* a refresh begun after an earlier one merged is polling from that earlier
\* refresh's start time less the overlap
C23_Witness ==
  \E c \in Requests :
    /\ refresh[c].pc = "list"
    /\ Merged(refresh[c].cache)
    /\ refresh[c].now > objs[refresh[c].cache].lastSyncDate
    /\ refresh[c].fromDate = objs[refresh[c].cache].lastSyncDate - fromDateOverlap

\* the entries of job j in a job list
EntriesOf(list, j) == {list[i] : i \in {k \in DOMAIN list : list[k].id = j}}

\* what the merge of modified list mods did to cache object o in this step
MergeStep(o, mods) ==
  LET old == objs[o]
      new == objs'[o]
  IN /\ Ids(new.fullJobList) = (Ids(old.fullJobList) \cup LiveIds(mods)) \ DeletedIds(mods)
     /\ \A i \in DOMAIN mods :
          EntriesOf(new.fullJobList, mods[i].id) = IF mods[i].deleted THEN {} ELSE {mods[i]}
     /\ \A j \in JobIds \ Ids(mods) :
          /\ EntriesOf(new.fullJobList, j) = EntriesOf(old.fullJobList, j)
          /\ EntryOf(new.jobDetailsCache, j) = EntryOf(old.jobDetailsCache, j)

\* C24: the merge of a refresh run alone and not short-circuited.  The ids
\* of fullJobList become the previous ids plus those of the modified list's
\* live jobs, minus those of its deleted jobs; each live modified job's entry
\* is the modified-list version; a job the list does not name keeps its entry
\* and its detail-cache entry.
C24_MergeStep ==
  [][\A c \in Requests :
       (InFlight(c) /\ refresh'[c].pc = "idle" /\ last'.kind = "merged")
         => IF refresh[c].pc = "details"
              THEN MergeStep(refresh[c].cache, refresh[c].modifiedJobs)
              ELSE \A mods \in ModLists : ListOk(c, mods) => MergeStep(refresh[c].cache, mods)]_vars

\* a merge has removed job 2 as deleted and left job 1 listed with its detail
C24_Witness ==
  /\ last.kind = "merged"
  /\ last.deleted = {2}
  /\ Ids(objs[last.cache].fullJobList) = {1}
  /\ 1 \in DOMAIN objs[last.cache].jobDetailsCache

\* C25 as stated: poll windows leave no gap.  When a refresh R2 begins on an
\* account whose most recently completed refresh R1 was successful (it merged
\* or short-circuited), R2's from-date is at most R1's start time less 5
\* minutes, so it lies before R1's read of the upstream.
C25_NoGap ==
  [][\A c \in Requests :
       (/\ ~InFlight(c) /\ InFlight(c)'
        /\ last.kind \in {"merged", "short"}
        /\ last.cache = refresh'[c].cache)
         => /\ refresh'[c].fromDate <= last.now - fromDateOverlap
            /\ refresh'[c].fromDateEpoch * TicksPerSecond <= last.now - fromDateOverlap]_vars

\* C25 amended: when the most recently completed refresh R1 merged, R2's
\* from-date is R1's start time less 5 minutes; when R1 short-circuited, it
\* is the start time, not later than now, of the refresh that last merged,
\* less 5 minutes.  The epoch seconds sent are the from-date rounded down.
C25_NoGapAfterMerge ==
  [][\A c \in Requests :
       (/\ ~InFlight(c) /\ InFlight(c)'
        /\ last.kind \in {"merged", "short"}
        /\ last.cache = refresh'[c].cache)
         => LET o == last.cache
            IN /\ last.kind = "merged" => refresh'[c].fromDate = last.now - fromDateOverlap
               /\ Merged(o)
               /\ objs[o].lastSyncDate <= clock
               /\ refresh'[c].fromDate = objs[o].lastSyncDate - fromDateOverlap
               /\ refresh'[c].fromDateEpoch * TicksPerSecond <= refresh'[c].fromDate]_vars

\* a refresh begun after a merge polls from the merging refresh's start
\* less the overlap, while another refresh begun before that merging one is
\* still awaiting its modified list
C25_Witness ==
  \E c, d \in Requests :
    /\ refresh[c].pc = "list" /\ refresh[d].pc = "list"
    /\ refresh[c].cache = refresh[d].cache
    /\ Merged(refresh[c].cache)
    /\ refresh[d].now < objs[refresh[c].cache].lastSyncDate
    /\ refresh[c].fromDate = objs[refresh[c].cache].lastSyncDate - fromDateOverlap

\* C26: from-date arithmetic.  The modified-list request of a refresh carries
\* include_deleted and from_date = floor((lastSyncDate - 5 minutes) / 1000)
\* in epoch seconds, lastSyncDate being the account's value when the refresh
\* begins (now - 90 days for an account without cached state); the request is
\* not altered by what other refreshes do while it is pending.
C26_FromDateArithmetic ==
  [][\A c \in Requests :
       /\ (~InFlight(c) /\ InFlight(c)')
            => LET a == refresh'[c].account
                   lastSyncDate == IF fieldMapsCache[a] = NoObj THEN clock - firstSyncAge
                                   ELSE objs[fieldMapsCache[a]].lastSyncDate
                   req == ListRequest(refresh'[c])
               IN /\ req.include_deleted
                  /\ req.account = a
                  /\ req.from_date * TicksPerSecond <= lastSyncDate - fromDateOverlap
                  /\ lastSyncDate - fromDateOverlap < (req.from_date + 1) * TicksPerSecond
                  /\ fieldMapsCache[a] = NoObj => req.from_date = SeedEpoch(clock)
       /\ (refresh[c].pc = "list" /\ refresh'[c].pc = "list")
            => ListRequest(refresh'[c]) = ListRequest(refresh[c])]_vars

\* a pending poll of an account already merged into whose from-date is not a
\* whole number of seconds, so that the rounding shows
C26_Witness ==
  \E c \in Requests :
    /\ refresh[c].pc = "list"
    /\ Merged(refresh[c].cache)
    /\ refresh[c].fromDate % TicksPerSecond # 0
    /\ ListRequest(refresh[c]).from_date * TicksPerSecond < refresh[c].fromDate

\* the merge of modified list mods into cache object o in this step was
\* blind: each live job of the list now has the list's version, also where
\* the cache held a later one, and is listed, also where it was not
BlindMerge(o, mods) ==
  \A i \in DOMAIN mods :
    ~mods[i].deleted => EntriesOf(objs'[o].fullJobList, mods[i].id) = {mods[i]}

\* C27: refreshes of an account are not serialized and the merge looks at
\* neither a lock nor a version: whichever refresh merges last writes its
\* modified list's version of each job over the cached one, so a refresh
\* that read upstream earlier and merges later puts an older version back
\* (or re-inserts a job the other refresh removed as deleted).
C27_LastMergeWins ==
  [][\A c \in Requests :
       (InFlight(c) /\ refresh'[c].pc = "idle" /\ last'.kind = "merged")
         => IF refresh[c].pc = "details"
              THEN BlindMerge(refresh[c].cache, refresh[c].modifiedJobs)
              ELSE \A mods \in RaceLists : ListOk(c, mods) => BlindMerge(refresh[c].cache, mods)]_vars

\* two refreshes of one account overlap: refresh c began first and has read
\* version 1 of job 1 from upstream; the other began later, read version 2
\* and has merged it (the cache's sync date is later than c's start); c is
\* still waiting for its detail batch and will merge version 1 over it
C27_Witness ==
  \E c \in Requests :
    /\ refresh[c].pc = "details"
    /\ refresh[c].modifiedJobs = <<[id |-> 1, modified_date |-> 1, deleted |-> FALSE]>>
    /\ refresh[c].now < objs[refresh[c].cache].lastSyncDate
    /\ last.kind = "merged" /\ last.caller # c /\ last.cache = refresh[c].cache
    /\ EntriesOf(objs[refresh[c].cache].fullJobList, 1) = {[id |-> 1, modified_date |-> 2, deleted |-> FALSE]}

\* the jobs cache object o lists without any detail record: their last
\* detail fetch failed
Undetailed(o) == Ids(objs[o].fullJobList) \ DOMAIN objs[o].jobDetailsCache

\* C28: a job whose detail fetch failed is fetched again by the next refresh
\* of the account that gets an answer from upstream, whether or not the job
\* is in that refresh's modified list.
C28_FailedDetailRetried ==
  [][\A c \in Requests :
       (refresh[c].pc = "list" /\ refresh'[c].pc # "list" /\ last'.kind # "threw")
         => \A j \in Undetailed(refresh[c].cache) :
              refresh'[c].pc = "details" /\ j \in refresh'[c].pending]_vars

\* pass p takes up order j in this step: it goes to await j's detail
TakesUp(p, j) == pass[p].pc # "details" /\ pass'[p].pc = "details" /\ pass'[p].order = j

\* the orders pass p has yet to walk when an awaited call settles in this
\* step: the list getFieldMaps returns, or the rest of the list it walks
Remaining(p) ==
  IF pass[p].pc = "fieldMaps"
    THEN [i \in DOMAIN lastReturned'[refresh[p].cache] |-> lastReturned'[refresh[p].cache][i].id]
    ELSE pass[p].rest

NothingEvaluated == \A k \in JobIds : evalCount[k] = 0
NoPassInFlight == \A p \in Passes : pass[p].pc = "idle"

\* C29 as stated, in its last part: once reset() has run (a job was evaluated
\* before it and none since), a pass evaluates every job it finds in the
\* list, so that with no pass in flight the seen set holds no id that has not
\* been evaluated since the reset.
C29_ResetReevaluatesAll ==
  (NoPassInFlight /\ decision.called /\ NothingEvaluated) => monitoredOrders = {}

\* C29: the seen set only grows except by reset(), which empties it; a failed
\* detail or geometry fetch evaluates nothing and removes nothing; a pass
\* takes up only orders not in the set and only an order taken up is
\* evaluated, so an order whose geometry fetch failed is not evaluated again
\* before a reset(); and whenever a call awaited by a pass settles without
\* ending the pass, the pass takes up the first remaining order of its list
\* that is not in the set, which after reset() is every order no pass has
\* added since.
C29_SeenSetMonotone ==
  /\ [][\/ monitoredOrders \subseteq monitoredOrders'
        \/ MonitorReset /\ monitoredOrders' = {}]_vars
  /\ [][\A p \in Passes :
          (GeometryFail(p) \/ OrderDetailsFail(p))
            => evalCount' = evalCount /\ monitoredOrders \subseteq monitoredOrders']_vars
  /\ [][\A p \in Passes, j \in JobIds :
          TakesUp(p, j) => j \notin monitoredOrders /\ j \in monitoredOrders']_vars
  /\ [][\A j \in JobIds :
          evalCount'[j] > evalCount[j]
            => \E p \in Passes : pass[p].pc = "geometry" /\ pass[p].order = j]_vars
  /\ [][\A p \in Passes :
          (\/ pass[p].pc = "geometry" /\ pass'[p] # pass[p] /\ ~OrderDetailsFail(p)
           \/ pass[p].pc = "fieldMaps" /\ pass'[p].pc # "fieldMaps" /\ last'.kind # "threw")
            => LET r == SkipMonitored(Remaining(p), monitoredOrders)
               IN IF r = <<>> THEN pass'[p].pc = "idle" ELSE TakesUp(p, Head(r))]_vars

\* reset() has run after job 1 was evaluated, and a pass has taken job 1 up
\* again: it is back in the set and waits for its geometry
C29_Witness ==
  /\ decision.called
  /\ NothingEvaluated
  /\ 1 \in monitoredOrders
  /\ \E p \in Passes : pass[p].pc = "geometry" /\ pass[p].order = 1 /\ pass[p].owner = "timer"

\* the value of setting f in group g of configuration cfg, if it has one
Setting(cfg, g, f) == IF f \in DOMAIN cfg[g] THEN {cfg[g][f]} ELSE {}

\* C30: updateConfig(updates) leaves every setting the update does not name
\* as it was, the rule toggles and e-mail fields missing from a
\* notificationRules or emailConfig object of the update included, and gives
\* every named setting its new value.
C30_UpdateIsMerge ==
  [][\A u \in ConfigUpdates :
       updateConfig(u)
         => /\ \A k \in DOMAIN config \ DOMAIN u : config'[k] = config[k]
            /\ "enabled" \in DOMAIN u => config'.enabled = u.enabled
            /\ \A g \in DOMAIN u \cap {"notificationRules", "emailConfig"} :
                 \A f \in DOMAIN DefaultConfig[g] :
                   Setting(config', g, f) =
                     IF f \in DOMAIN u[g] THEN {u[g][f]} ELSE Setting(config, g, f)]_vars

\* configuration cfg with smtpPassword pw stored instead of its own
WithPassword(cfg, pw) ==
  [cfg EXCEPT !.emailConfig =
     [f \in DOMAIN cfg.emailConfig \cup {"smtpPassword"} |->
        IF f = "smtpPassword" THEN pw ELSE cfg.emailConfig[f]]]

\* C31: the responses of GET /config and of POST /config do not depend on
\* the stored SMTP password: with any other non-empty password stored in its
\* place, reading the configuration and making the same update answer with
\* the same body.
C31_PasswordNotExposed ==
  /\ [](\A pw \in PasswordValues \ {""} :
          StoredPassword(config) # ""
            => GetConfigResponse(WithPassword(config, pw)) = GetConfigResponse(config))
  /\ [][\A u \in ConfigUpdates :
          (updateConfig(u) /\ StoredPassword(config) # "")
            => \A pw \in PasswordValues \ {""} :
                 PostConfigResponse(MergeConfig(WithPassword(config, pw), u))
                   = PostConfigResponse(config')]_vars

\* getStatus().running (line 271)
StatusRunning == intervalId

\* C32: at most one scheduler interval is armed, and getStatus().running is
\* true exactly when one is; start() on a scheduled scheduler arms nothing
\* and starts no sync; an interval fires only while the scheduler is
\* scheduled, so after stop() no timer-triggered sync starts; stop() leaves a
\* run in flight alone, and the run records its outcome when it settles.
C32_OneSchedulerTimer ==
  /\ [](intervals <= 1 /\ (StatusRunning <=> intervals = 1))
  /\ [][\A s \in SyncCalls : (intervalId /\ SchedulerStart(s)) => UNCHANGED vars]_vars
  /\ [][\A s \in SyncCalls : SchedulerTimer(s) => intervalId]_vars
  /\ [][SchedulerStop => /\ ~intervalId' /\ intervals' = 0
                         /\ UNCHANGED <<refresh, isSyncing, syncResult, lastSyncStatus>>]_vars
  /\ [][\A s \in SyncCalls :
          (syncResult[s] = "running" /\ syncResult'[s] # "running")
            => /\ ~isSyncing'
               /\ lastSyncTime' = clock
               /\ lastSyncStatus' = syncResult'[s]
               /\ lastSyncStatus' \in {"success", "failed"}
               /\ UNCHANGED <<intervalId, intervals>>]_vars

\* stop() has run while a run begun by start() or by the interval is in
\* flight: nothing is armed, the status reports not running, and the run is
\* still awaiting upstream
C32_Witness ==
  /\ ~StatusRunning
  /\ intervals = 0
  /\ isSyncing
  /\ \E s \in SyncCalls : syncResult[s] = "running" /\ InFlight(s)

\* C33: a getFieldMaps call leaves its caller waiting on one modified-list
\* request, whatever the age and content of the cache; it returns or throws
\* only in a step in which that request or a detail request of its batch
\* settles, and issues no second list request; a valid cache only lets an
\* empty answer return the cached list with the cache untouched.
C33_EveryRefreshPolls ==
  /\ [][\A c \in Requests :
          Request(c, accountId)
            => /\ refresh'[c].pc = "list"
               /\ ListRequest(refresh'[c]).account = accountId
               /\ last' = NoLast]_vars
  /\ [][\A c \in Requests :
          /\ (last' # last /\ last'.caller = c) => refresh[c].pc \in {"list", "details"}
          /\ (refresh'[c].pc = "list" /\ refresh[c].pc # "list") => refresh[c].pc = "idle"
          /\ (refresh'[c].pc = "details" /\ refresh[c].pc # "details") => refresh[c].pc = "list"
          /\ (refresh[c].pc = "list" /\ last'.kind = "short" /\ last'.caller = c)
               => refresh[c].cacheValid /\ UNCHANGED objs]_vars

\* a refresh waits for upstream's modified list although the account's cache
\* is younger than five minutes and holds jobs
C33_Witness ==
  \E c \in Requests :
    /\ refresh[c].pc = "list"
    /\ refresh[c].cacheValid
    /\ refresh[c].now - objs[refresh[c].cache].timestamp < cacheExpiry
    /\ Len(objs[refresh[c].cache].fullJobList) > 0

\* the refreshes working on cache object o
RefreshesOn(o) == {c \in Callers : InFlight(c) /\ refresh[c].cache = o}

\* the ids with a detail record in o but no entry in its job list
Orphans(o) == DOMAIN objs[o].jobDetailsCache \ Ids(objs[o].fullJobList)

\* C34: in a cache state no refresh is working on, every detail record
\* belongs to a listed job; a detail record without a list entry is one that
\* a refresh still waiting for its detail batch has fetched.
C34_QuiescentConsistency ==
  \A o \in DOMAIN objs :
    /\ RefreshesOn(o) = {} => Orphans(o) = {}
    /\ \A j \in Orphans(o) :
         \E c \in RefreshesOn(o) :
           refresh[c].pc = "details" /\ j \in refresh[c].jobsNeedingDetails \ refresh[c].pending

\* job 1 came marked deleted in a modified list: its detail was fetched by
\* the batch and the merge then removed it from both; nothing is in flight
\* and the cache holds neither entry
C34_Witness ==
  /\ \A c \in Callers : ~InFlight(c)
  /\ last.kind = "merged"
  /\ last.deleted = {1}
  /\ 1 \in everFetched[last.cache]
  /\ Orphans(last.cache) = {}
  /\ 1 \notin Ids(objs[last.cache].fullJobList)

\* no two entries of the sequence carry the same id
DistinctIds(seq) == \A i, k \in DOMAIN seq : seq[i].id = seq[k].id => i = k

\* C35: no job list of the cache holds two entries of one id or an entry
\* marked deleted, and the same is true of every list a refresh returns.
C35_ListWellFormed ==
  \A o \in DOMAIN objs :
    /\ DistinctIds(objs[o].fullJobList)
    /\ \A i \in DOMAIN objs[o].fullJobList : ~objs[o].fullJobList[i].deleted
    /\ DistinctIds(lastReturned[o])
    /\ \A i \in DOMAIN lastReturned[o] : ~lastReturned[o][i].deleted

\* a merge has just removed job 1 as deleted and left job 2 listed at its
\* version 2; the list returned holds job 2 alone
C35_Witness ==
  /\ last.kind = "merged"
  /\ last.deleted = {1}
  /\ objs[last.cache].fullJobList = <<[id |-> 2, modified_date |-> 2, deleted |-> FALSE]>>
  /\ Len(lastReturned[last.cache]) = 1
  /\ lastReturned[last.cache][1].id = 2

\* C36: when the modified-list call of a refresh fails, the account's cache
\* entry stays as it is; for an account's first refresh that is the state
\* seeded at that attempt, which the cache stats show as an account with no
\* jobs and no details whose last sync date lies 90 days before the attempt.
\* A refresh beginning on such a seeded entry does not seed again: it polls
\* from the entry's last sync date less the overlap.
C36_FailedFirstRefreshLeavesSeed ==
  /\ [][\A c \in Requests :
          ListFail(c)
            => LET o == refresh[c].cache
                   a == refresh[c].account
               IN /\ fieldMapsCache'[a] = o
                  /\ objs'[o] = objs[o]
                  /\ objs[o] = NewCache(refresh[c].now)
                       => /\ a \in DOMAIN getCacheStats'
                          /\ getCacheStats'[a].totalJobs = 0
                          /\ getCacheStats'[a].cachedDetailsCount = 0
                          /\ getCacheStats'[a].lastSyncDate = refresh[c].now - firstSyncAge]_vars
  /\ [][\A c \in Requests :
          (Request(c, accountId) /\ fieldMapsCache[accountId] # NoObj)
            => LET o == fieldMapsCache[accountId]
               IN /\ objs' = objs
                  /\ refresh'[c].cache = o
                  /\ refresh'[c].fromDate = objs[o].lastSyncDate - fromDateOverlap]_vars

\* the account's first refresh failed at its list call; a later refresh is now
\* polling from the seed of that attempt, which lies further back than 90
\* days before its own start
C36_Witness ==
  \E c \in Requests :
    /\ refresh[c].pc = "list"
    /\ objs[refresh[c].cache].fullJobList = <<>>
    /\ objs[refresh[c].cache].timestamp < refresh[c].now
    /\ objs[refresh[c].cache] = NewCache(objs[refresh[c].cache].timestamp)
    /\ refresh[c].fromDate = objs[refresh[c].cache].timestamp - firstSyncAge - fromDateOverlap
    /\ refresh[c].fromDate < refresh[c].now - firstSyncAge - fromDateOverlap

\* C37: clearCache while a refresh of the account awaits upstream drops the
\* account's entry and touches neither the refresh nor its state object; the
\* refresh goes on writing to the object it began on and never puts an entry
\* back; a refresh of an account without entry begins on a new state object
\* seeded 90 days back, with an empty list.
C37_ClearNotUndone ==
  [][/\ \A a \in Accounts \cup {""} :
          clearCache(a)
            => /\ \A x \in Accounts : (a = "" \/ x = a) => fieldMapsCache'[x] = NoObj
               /\ objs' = objs /\ refresh' = refresh
     /\ \A c \in Requests :
          (InFlight(c) /\ refresh'[c] # refresh[c])
            => /\ fieldMapsCache' = fieldMapsCache
               /\ Len(objs') = Len(objs)
               /\ \A o \in DOMAIN objs : o # refresh[c].cache => objs'[o] = objs[o]
     /\ \A c \in Requests, a \in Accounts :
          (fieldMapsCache[a] = NoObj /\ Request(c, a))
            => /\ refresh'[c].cache = Len(objs) + 1
               /\ objs'[refresh'[c].cache] = NewCache(clock)
               /\ NewCache(clock).fullJobList = <<>>
               /\ refresh'[c].fromDate = clock - firstSyncAge - fromDateOverlap]_vars

\* the account was cleared while its refresh was awaiting upstream: the
\* account has no entry, and the refresh, waiting for job 2's detail, has
\* written job 1's into the state object it began on
C37_Witness ==
  \E c \in Requests :
    /\ refresh[c].pc = "details"
    /\ refresh[c].pending = {2}
    /\ fieldMapsCache[refresh[c].account] = NoObj
    /\ 1 \in DOMAIN objs[refresh[c].cache].jobDetailsCache

\* the entry the account's job list holds for job 1 is not what upstream
\* holds: another version, or the job is deleted upstream
StaleEntry(o) ==
  \E e \in EntriesOf(objs[o].fullJobList, 1) :
    upstream.deleted \/ e.modified_date # upstream.modified_date

\* C38: a merge that writes an older version of job 1 over a newer one
\* leaves lastSyncDate at the merging refresh's start, which is not after
\* the job's last modification upstream; and whenever no refresh is in
\* flight and the listed entry of job 1 differs from upstream's record, the
\* modification lies inside the window the next refresh polls, so that
\* refresh receives the job, and its merge replaces the entry by the version
\* received or removes it when received as deleted.
C38_StaleOverwriteHeals ==
  /\ [](\A o \in DOMAIN objs :
          (Quiescent /\ fieldMapsCache[accountId] = o /\ StaleEntry(o))
            => FromDateEpoch(FromDate(objs[o])) * TicksPerSecond <= upstream.at)
  /\ [][\A c \in Requests :
          (InFlight(c) /\ refresh'[c].pc = "idle" /\ last'.kind = "merged")
            => LET o == refresh[c].cache
                   mods == IF refresh[c].pc = "details" THEN refresh[c].modifiedJobs
                           ELSE UpstreamAnswer(refresh[c])
               IN /\ objs'[o].lastSyncDate = refresh[c].now
                  /\ (\E e \in EntriesOf(objs[o].fullJobList, 1), i \in DOMAIN mods :
                        ~mods[i].deleted /\ mods[i].modified_date < e.modified_date)
                       => refresh[c].now <= upstream.at
                  /\ EntriesOf(objs'[o].fullJobList, 1) = {mods[i] : i \in {k \in DOMAIN mods : ~mods[k].deleted}}
                       \cup (IF mods = <<>> THEN EntriesOf(objs[o].fullJobList, 1) ELSE {})]_vars

\* two refreshes race and the stale overwrite is about to happen: a refresh
\* that started before the modification holds version 1 of job 1 in its
\* modified list and awaits its last detail, while the other refresh has
\* already merged version 2 into the list of the same cache object
C38_Witness ==
  \E c \in Requests :
    /\ refresh[c].pc = "details"
    /\ refresh[c].pending = {1}
    /\ refresh[c].modifiedJobs = <<[id |-> 1, modified_date |-> 1, deleted |-> FALSE]>>
    /\ refresh[c].now <= upstream.at
    /\ upstream.modified_date = 2 /\ ~upstream.deleted
    /\ last.kind = "merged" /\ last.caller # c /\ last.cache = refresh[c].cache
    /\ EntriesOf(objs[refresh[c].cache].fullJobList, 1) = {[id |-> 1, modified_date |-> 2, deleted |-> FALSE]}
    /\ objs[refresh[c].cache].lastSyncDate > refresh[c].now

\* order j is in the seen set and no pass is working on it
Dropped(j) ==
  /\ j \in monitoredOrders
  /\ \A p \in Passes : pass[p].pc \in {"details", "geometry"} => pass[p].order # j

\* C39: when the detail fetch of an order a pass has just taken up fails,
\* the pass ends there: the seen set is left as it is, so the order, added
\* when it was taken up, stays in it unevaluated (unless reset() emptied the
\* set meanwhile), the pass adds none of the orders after it, no other pass
\* is touched, and the
\* monitor stays as it was (running flag kept, interval kept, or armed when
\* the pass was start()'s own).  An order in the set that no pass is working
\* on is not taken up or evaluated again unless reset() empties the set.  And
\* a pass whose getFieldMaps returns takes up the first order of the list
\* that is not in the set, so the orders left behind are processed by it.
C39_DetailFailureEndsPass ==
  /\ [][\A p \in Passes :
          OrderDetailsFail(p)
            => /\ pass'[p] = IdlePass
               /\ \A q \in Passes \ {p} : pass'[q] = pass[q]
               /\ monitoredOrders' = monitoredOrders
               /\ \A i \in DOMAIN pass[p].rest :
                    pass[p].rest[i] \notin monitoredOrders => pass[p].rest[i] \notin monitoredOrders'
               /\ evalCount' = evalCount /\ decision' = decision
               /\ isRunning' = isRunning
               /\ timers' >= timers
               /\ pass[p].owner = "start" => checkInterval'
               /\ pass[p].owner = "timer" => checkInterval' = checkInterval]_vars
  /\ [][\A j \in JobIds :
          Dropped(j) => \/ Dropped(j)' /\ evalCount'[j] = evalCount[j]
                        \/ MonitorReset]_vars
  /\ [][\A p \in Passes :
          (pass[p].pc = "fieldMaps" /\ pass'[p].pc # "fieldMaps" /\ last'.kind # "threw")
            => \A j \in JobIds :
                 (j \notin monitoredOrders /\ \E i \in DOMAIN Remaining(p) : Remaining(p)[i] = j)
                   => \E k \in JobIds : TakesUp(p, k) /\ k \notin monitoredOrders]_vars

\* a pass ended at job 1: no pass is in flight, the list the monitor was
\* given holds jobs 1 and 2, job 1 is in the seen set, job 2 is not, and
\* nothing has been evaluated
C39_Witness ==
  /\ NoPassInFlight
  /\ isRunning /\ timers > 0
  /\ monitoredOrders = {1}
  /\ NothingEvaluated /\ ~decision.called
  /\ fieldMapsCache[monitoredAccount] # NoObj
  /\ [i \in DOMAIN lastReturned[fieldMapsCache[monitoredAccount]] |->
       lastReturned[fieldMapsCache[monitoredAccount]][i].id] = <<1, 2>>

\* what saveConfig did in this step after a mutation that made config': the
\* file holds the new configuration, or the save threw and the file is as
\* it was
Persisted ==
  IF writable THEN configFile' = config' /\ ~saveFailed'
  ELSE configFile' = configFile /\ saveFailed'

\* C40: every mutation of the configuration applies its change to the
\* configuration in memory whether or not the file can be written, and then
\* saves: the file receives the new configuration, or the save fails, the
\* mutation rejects, the file stays as it was and the change in memory is
\* kept.  addAlwaysNotify of an address already listed changes and saves
\* nothing.  The decision and the recipients given for an order are computed
\* from the configuration in memory.  Unless the last save failed, the file
\* holds the configuration in memory.
C40_MemoryBeforeDisk ==
  /\ [][\A u \in EnableUpdates :
          updateConfig(u) => config' = MergeConfig(config, u) /\ Persisted]_vars
  /\ [][\A e \in Emails :
          addAlwaysNotify(e)
            => IF Includes(config.alwaysNotify, e)
                 THEN UNCHANGED <<config, configFile, saveFailed>>
                 ELSE config'.alwaysNotify = Append(config.alwaysNotify, e) /\ Persisted]_vars
  /\ [][\A e \in Emails :
          removeAlwaysNotify(e)
            => /\ ~Includes(config'.alwaysNotify, e)
               /\ \A x \in Emails \ {e} :
                    Includes(config'.alwaysNotify, x) <=> Includes(config.alwaysNotify, x)
               /\ Persisted]_vars
  /\ [][\A c \in Contractors, e \in Emails :
          setContractorEmail(c, e)
            => /\ c \in DOMAIN config'.contractorEmails
               /\ config'.contractorEmails[c] = e
               /\ Persisted]_vars
  /\ [][\A c \in Contractors :
          removeContractorEmail(c)
            => c \notin DOMAIN config'.contractorEmails /\ Persisted]_vars
  /\ [][CheckOrder(CheckedOrder, CheckedFeatures)
          => /\ decision'.result = shouldNotify(config, CheckedOrder, CheckedFeatures)
             /\ decision'.recipients = getRecipients(config, CheckedOrder.contractor)]_vars
  /\ [](~saveFailed => configFile = config)

\* notifications were enabled and an address added while the file could not
\* be written: the last save failed, the file still holds the defaults, and
\* the order just checked got a notify decision and the new recipient, which
\* the configuration in the file would not have given it
C40_Witness ==
  /\ saveFailed
  /\ configFile = DefaultConfig
  /\ config.enabled
  /\ config.alwaysNotify # <<>>
  /\ decision.called
  /\ decision.result.notify
  /\ decision.recipients = getRecipients(config, decision.order.contractor)
  /\ decision.recipients # getRecipients(configFile, decision.order.contractor)
  /\ ~shouldNotify(configFile, decision.order, decision.features).notify

====
